---- MODULE Spec2Model ----
(***************************************************************************)
(* Text-to-SQL service: the rate-limited LLM invocation layer              *)
(* (app.py llm_call_with_retries wrapping the openai_service.py helpers,   *)
(* which call create_chat_completion_with_retries) and the request         *)
(* handlers /query, /ask and /chat of app.py.                              *)
(*                                                                         *)
(* Two semaphores exist in the code: app.py's _llm_semaphore (the "outer"  *)
(* pool, variable oSem) and openai_service.py's semaphore (the "inner"     *)
(* pool, variable iSem).  Every model call made by a handler goes through  *)
(* both: llm_call_with_retries acquires the outer one and calls a helper,  *)
(* the helper's create_chat_completion_with_retries acquires the inner one *)
(* around the provider call.                                               *)
(***************************************************************************)
EXTENDS Naturals, Integers, Sequences, FiniteSets, TLC

(***************************************************************************)
(* Configuration read from the environment (app.py:14-15 and config.py:    *)
(* 12-13 read the same variables MAX_CONCURRENT and MAX_RETRIES).  The     *)
(* model fixes one environment; the values are bounds of the model.        *)
(***************************************************************************)
MAX_CONCURRENT == 2
MAX_RETRIES == 3
\* number of threads of Spec that call the invoker, next to OtherRequests
NumCallers == 2

(***************************************************************************)
(* Durations are counted in ticks of 0.25 s (the value of JITTER).         *)
(***************************************************************************)
BASE_DELAY == 4
MAX_BACKOFF == 80
JITTER == 1
\* config.py:14 has no usable default; the environment sets 8 s, with which
\* the third wait of create_chat_completion_with_retries is 32 s
BASE_DELAY_SECONDS == 32

VARIABLES
  oSem,      \* _llm_semaphore._value
  iSem,      \* semaphore._value (openai_service)
  pc,        \* where each thread is
  kind,      \* the helper the current invocation wraps
  oAttempt,  \* attempt of llm_call_with_retries' loop
  iAttempt,  \* attempt of create_chat_completion_with_retries' loop
  after,     \* how the try block of llm_call_with_retries is being left
  \* What follows is recorded for the observed threads only (the domain of
  \* these functions); it decides nothing a thread does before its
  \* invocation is over.
  lastExc,   \* last_exception of llm_call_with_retries
  ret,       \* the value the helper returned
  lastOut,   \* what the provider did on the last call
  calls,     \* provider calls made by the current invocation
  hist,      \* summary of the provider outcomes of the current invocation
  oSleeps,   \* backoff (without jitter) of each sleep of llm_call_with_retries
  iSleeps,   \* the same for the running create_chat_completion_with_retries
  nap,       \* length of the sleep in progress, jitter included
  overdue,   \* the thread has been blocked on a semaphore for 60 s
  \* The request an observed thread is serving (app.py:175-472).
  ep,        \* the endpoint: "query", "ask" or "chat"
  msg,       \* prompt / question / message of the request
  st,        \* where the handler is
  isDb,      \* is_db of chat
  sqlQuery,  \* sql_query / generated_sql of the handler
  genSql,    \* what the SQL-generation invocation returned to the handler
  rows,      \* what run_sql returned: a number of rows, or "None"
  answer,    \* final_answer
  resp,      \* the response: its status code and its error text
  ran,       \* the texts the handler has passed to run_sql
  saved,     \* the save_conversation calls of the handler
  invoked,   \* the helpers the handler has passed to llm_call_with_retries
  permits,   \* semaphore acquisitions made for the request
  \* The database and the rest of the traffic.
  committed, \* the write statements run_sql has committed for the request
  bgO,       \* permits of _llm_semaphore held by requests not followed here
  bgI,       \* the same for openai_service's semaphore
  \* The two library modules, exercised on their own (compaire.py, db.py).
  cache,     \* the entry of get_cached_schema_tokens' lru_cache(maxsize=1)
  isDbLog,   \* the calls of is_db_question made so far, with their results
  tokLog,    \* the calls of get_cached_schema_tokens made so far
  turns,     \* the rows of the conversations table, in insertion order
  clock,     \* CURRENT_TIMESTAMP, in seconds
  lastHist,  \* the last get_conversation_history call: its arguments, the
             \* number of rows in the table then, and the ids it returned
  \* The /table_preview endpoint, exercised on its own (app.py:240-265).
  dbTables,  \* the tables the database has
  pv         \* the preview request: where its handler is, the table asked
             \* for, the tables discovered, the response, the texts run

invVars == <<oSem, iSem, pc, kind, oAttempt, iAttempt, after, lastExc, ret,
             lastOut, calls, hist, oSleeps, iSleeps, nap, overdue>>

reqVars == <<ep, msg, st, isDb, sqlQuery, genSql, rows, answer, resp, ran, saved,
             invoked>>

envVars == <<committed, bgO, bgI>>

cacheVars == <<cache, isDbLog, tokLog>>

dbVars == <<turns, clock, lastHist>>

previewVars == <<dbTables, pv>>

libVars == <<cacheVars, dbVars, previewVars>>

appVars == <<invVars, reqVars, permits, envVars>>

vars == <<appVars, libVars>>

\* what no step inside llm_call_with_retries touches
outside == <<reqVars, envVars>>

Kinds == {"sql", "answer", "classify", "chat"}

\* what one provider call can do
Transient == {"rate", "oaierr"}
ProviderOutcomes == {"ok", "blank", "rate", "oaierr", "exc429", "exc"}

Min(a, b) == IF a < b THEN a ELSE b

RECURSIVE Pow2(_)
Pow2(n) == IF n = 0 THEN 1 ELSE 2 * Pow2(n - 1)

\* app.py:95
OuterBackoff(attempt) == Min(BASE_DELAY * Pow2(attempt), MAX_BACKOFF)

\* openai_service.py:78 and :90 (no cap)
InnerBackoff(attempt) == BASE_DELAY_SECONDS * Pow2(attempt)

\* random.uniform(0, JITTER), app.py:96; its two ends
OuterJitters == {0, JITTER}

\* _jitter(0, delay), openai_service.py:46-47; its two ends
InnerJitters == {0, BASE_DELAY_SECONDS}

NoValue == "<none>"

(***************************************************************************)
(* Text helpers.  A text is a TLA+ string; Len, SubSeq and \o work on it.  *)
(***************************************************************************)
Char(s, i) == SubSeq(s, i, i)

Whitespace == {" ", "\n", "\t", "\r"}

StartsWith(s, p) == Len(s) >= Len(p) /\ SubSeq(s, 1, Len(p)) = p

EndsWith(s, p) == Len(s) >= Len(p) /\ SubSeq(s, Len(s) - Len(p) + 1, Len(s)) = p

RECURSIVE LStrip(_)
LStrip(s) ==
  IF Len(s) > 0 /\ Char(s, 1) \in Whitespace THEN LStrip(SubSeq(s, 2, Len(s))) ELSE s

RECURSIVE RStrip(_)
RStrip(s) ==
  IF Len(s) > 0 /\ Char(s, Len(s)) \in Whitespace
  THEN RStrip(SubSeq(s, 1, Len(s) - 1)) ELSE s

\* str.strip()
Strip(s) == LStrip(RStrip(s))

LowerOf(c) ==
  CASE c = "A" -> "a" [] c = "B" -> "b" [] c = "C" -> "c" [] c = "D" -> "d"
    [] c = "E" -> "e" [] c = "F" -> "f" [] c = "G" -> "g" [] c = "H" -> "h"
    [] c = "I" -> "i" [] c = "J" -> "j" [] c = "K" -> "k" [] c = "L" -> "l"
    [] c = "M" -> "m" [] c = "N" -> "n" [] c = "O" -> "o" [] c = "P" -> "p"
    [] c = "Q" -> "q" [] c = "R" -> "r" [] c = "S" -> "s" [] c = "T" -> "t"
    [] c = "U" -> "u" [] c = "V" -> "v" [] c = "W" -> "w" [] c = "X" -> "x"
    [] c = "Y" -> "y" [] c = "Z" -> "z" [] OTHER -> c

UpperOf(c) ==
  CASE c = "a" -> "A" [] c = "b" -> "B" [] c = "c" -> "C" [] c = "d" -> "D"
    [] c = "e" -> "E" [] c = "f" -> "F" [] c = "g" -> "G" [] c = "h" -> "H"
    [] c = "i" -> "I" [] c = "j" -> "J" [] c = "k" -> "K" [] c = "l" -> "L"
    [] c = "m" -> "M" [] c = "n" -> "N" [] c = "o" -> "O" [] c = "p" -> "P"
    [] c = "q" -> "Q" [] c = "r" -> "R" [] c = "s" -> "S" [] c = "t" -> "T"
    [] c = "u" -> "U" [] c = "v" -> "V" [] c = "w" -> "W" [] c = "x" -> "X"
    [] c = "y" -> "Y" [] c = "z" -> "Z" [] OTHER -> c

RECURSIVE Lower(_)
Lower(s) == IF Len(s) = 0 THEN s ELSE LowerOf(Char(s, 1)) \o Lower(SubSeq(s, 2, Len(s)))

RECURSIVE Upper(_)
Upper(s) == IF Len(s) = 0 THEN s ELSE UpperOf(Char(s, 1)) \o Upper(SubSeq(s, 2, Len(s)))

AlphaNum ==
  {"a", "b", "c", "d", "e", "f", "g", "h", "i", "j", "k", "l", "m", "n", "o", "p",
   "q", "r", "s", "t", "u", "v", "w", "x", "y", "z", "0", "1", "2", "3", "4", "5",
   "6", "7", "8", "9"}

\* the rest of s after its leading [a-zA-Z0-9]* run
RECURSIVE SkipAlphaNum(_)
SkipAlphaNum(s) ==
  IF Len(s) > 0 /\ LowerOf(Char(s, 1)) \in AlphaNum
  THEN SkipAlphaNum(SubSeq(s, 2, Len(s))) ELSE s

\* a Markdown fence; the backquote, which a TLA+ string cannot hold, is written ^
Fence == "^^^"

\* openai_service.py:154-165
StripCodeFences(text) ==
  IF Len(text) = 0 THEN text
  ELSE
    LET tail == IF StartsWith(text, Fence) THEN SkipAlphaNum(SubSeq(text, 4, Len(text)))
                ELSE ""
        t1 == IF StartsWith(text, Fence) /\ StartsWith(tail, "\n")
              THEN SubSeq(tail, 2, Len(tail)) ELSE text
        t2 == IF EndsWith(t1, "\n" \o Fence) THEN SubSeq(t1, 1, Len(t1) - 4) ELSE t1
    IN Strip(t2)

(***************************************************************************)
(* What the provider can answer: the content of the first choice of a      *)
(* well-formed response, per helper.                                       *)
(***************************************************************************)
SqlContents ==
  {"SELECT * FROM employees", "DROP TABLE employees", "^^^sql\nSELECT 1\n^^^", " "}

ClassifyContents == {"true", "False", "maybe", " TRUE.", "falsely", "not true"}

AnswerContents == {"There are 3 employees.", " "}

Contents(k) ==
  CASE k = "sql" -> SqlContents
    [] k = "classify" -> ClassifyContents
    [] OTHER -> AnswerContents

\* _validate_openai_response, openai_service.py:108-151, on a response whose
\* first choice holds content: the stripped content
ValidateResponse(content) == Strip(content)

(***************************************************************************)
(* How a helper ends, given how its create_chat_completion_with_retries    *)
(* ended: "ok" (a response with content), "blank" (a response without      *)
(* choices or content: _validate_openai_response raises), "exc429" / "exc" *)
(* (the provider raised something that is no OpenAIError, whose text does  *)
(* / does not mention 429 or a rate limit), "exhausted" (the retries ran   *)
(* out).  how: "return", "raise429" (llm_call_with_retries' _looks_like_429*)
(* holds of what is raised) or "raise".                                    *)
(***************************************************************************)
\* call_openai_for_sql, openai_service.py:168-206
SqlHelper(end, content) ==
  CASE end = "ok" -> [how |-> "return", val |-> StripCodeFences(ValidateResponse(content))]
    [] end = "exc429" -> [how |-> "raise429", val |-> NoValue]
    [] OTHER -> [how |-> "raise", val |-> NoValue]

\* call_openai_for_answer, openai_service.py:209-260
AnswerHelper(end, content) ==
  IF end = "ok" THEN [how |-> "return", val |-> ValidateResponse(content)]
  ELSE [how |-> "return", val |-> "Error generating answer"]

\* call_openai_for_not_db_answer, openai_service.py:263-312
ChatHelper(end, content) ==
  IF end = "ok" THEN [how |-> "return", val |-> ValidateResponse(content)]
  ELSE [how |-> "return", val |-> "Sorry, I encountered an error"]

\* ClassifyHelper gone wrong: what is no answer of the classifier is raised
ClassifyHelperStrict(end, content) ==
  IF end = "ok" /\ Lower(ValidateResponse(content)) \in {"true", "false"}
  THEN [how |-> "return",
        val |-> IF Lower(ValidateResponse(content)) = "true" THEN "True" ELSE "False"]
  ELSE [how |-> "raise", val |-> NoValue]

\* call_openai_for_classification, openai_service.py:315-355
ClassifyHelper(end, content) ==
  IF end = "ok" /\ StartsWith(Lower(ValidateResponse(content)), "true")
  THEN [how |-> "return", val |-> "True"]
  ELSE [how |-> "return", val |-> "False"]

HelperResult(k, end, content) ==
  CASE k = "sql" -> SqlHelper(end, content)
    [] k = "answer" -> AnswerHelper(end, content)
    [] k = "chat" -> ChatHelper(end, content)
    [] OTHER -> ClassifyHelper(end, content)

\* _looks_like_429, app.py:64-72, of what a helper raised
LooksLike429(how) == how = "raise429"

(***************************************************************************)
(* The invoker: llm_call_with_retries (app.py:75-114) around a helper that *)
(* runs create_chat_completion_with_retries (openai_service.py:50-105).    *)
(*                                                                         *)
(* pc: "idle"      no invocation                                           *)
(*     "o_acquire" app.py:85, waiting for _llm_semaphore                   *)
(*     "i_acquire" openai_service.py:68, waiting for semaphore             *)
(*     "i_call"    openai_service.py:70, the provider call is in flight    *)
(*     "i_sleep"   openai_service.py:86 and :98                            *)
(*     "o_sleep"   app.py:99                                               *)
(*     "o_release" app.py:103                                              *)
(*     "o_finally" app.py:107                                              *)
(*     "o_finrel"  app.py:109                                              *)
(*     "returned", "raised"  the invocation is over                        *)
(***************************************************************************)
Threads == DOMAIN pc

Observed == DOMAIN hist

\* f with F applied at t, when f records t
Rec(f, t, F(_)) == [u \in DOMAIN f |-> IF u = t THEN F(f[u]) ELSE f[u]]

\* f with v at t, when f records t
Put(f, t, v) == [u \in DOMAIN f |-> IF u = t THEN v ELSE f[u]]

\* summary of the provider outcomes of one invocation:
\*   "none"  no provider call has ended
\*   "ok0"   the first call succeeded
\*   "T"     every call so far failed with an error the inner loop retries
\*   "T_ok"  such failures, then a success
\*   "F"     every call so far raised a non-OpenAI error that looks like a 429
\*   "F_ok"  such failures, then a success
\*   "mixed" anything else
HistNext(h, o) ==
  CASE h = "none" /\ o = "ok" -> "ok0"
    [] h \in {"none", "T"} /\ o \in Transient -> "T"
    [] h = "T" /\ o = "ok" -> "T_ok"
    [] h \in {"none", "F"} /\ o = "exc429" -> "F"
    [] h = "F" /\ o = "ok" -> "F_ok"
    [] OTHER -> "mixed"

\* OuterLoopNext gone wrong: the loop goes round once more than MAX_RETRIES
OuterLoopOnceMore(t) ==
  IF oAttempt[t] + 1 <= MAX_RETRIES
  THEN /\ oAttempt' = [oAttempt EXCEPT ![t] = @ + 1]
       /\ pc' = [pc EXCEPT ![t] = "o_acquire"]
  ELSE /\ oAttempt' = oAttempt
       /\ pc' = [pc EXCEPT ![t] = "raised"]

\* the loop of llm_call_with_retries goes round: app.py:83 and :112-114
OuterLoopNext(t) ==
  IF oAttempt[t] + 1 < MAX_RETRIES
  THEN /\ oAttempt' = [oAttempt EXCEPT ![t] = @ + 1]
       /\ pc' = [pc EXCEPT ![t] = "o_acquire"]
  ELSE /\ oAttempt' = oAttempt
       /\ pc' = [pc EXCEPT ![t] = "raised"]

\* the finally block is done: the return, raise or continue it interrupted goes on
AfterFinally(t) ==
  CASE after[t] = "return" -> pc' = [pc EXCEPT ![t] = "returned"] /\ oAttempt' = oAttempt
    [] after[t] = "raise" -> pc' = [pc EXCEPT ![t] = "raised"] /\ oAttempt' = oAttempt
    [] OTHER -> OuterLoopNext(t)

\* the except clause of llm_call_with_retries for an exception that looks
\* like a 429: app.py:93-100; j is the jitter drawn at app.py:96
Outer429(t, j) ==
  /\ pc' = [pc EXCEPT ![t] = "o_sleep"]
  /\ oSleeps' = Rec(oSleeps, t, LAMBDA q : Append(q, OuterBackoff(oAttempt[t])))
  /\ nap' = Put(nap, t, OuterBackoff(oAttempt[t]) + j)

\* OuterNon429 gone wrong: the other exceptions back off as well
OuterNon429BacksOff(t) ==
  /\ pc' = [pc EXCEPT ![t] = "o_sleep"]
  /\ UNCHANGED <<oSleeps, nap>>

\* the except clause of llm_call_with_retries for any other exception:
\* app.py:101-104
OuterNon429(t) ==
  /\ pc' = [pc EXCEPT ![t] = "o_release"]
  /\ UNCHANGED <<oSleeps, nap>>

\* the helper called at app.py:90 ends with r = [how, val]: app.py:90-104
HelperEnds(t, r, j) ==
  /\ ret' = Put(ret, t, r.val)
  /\ lastExc' = Put(lastExc, t,
       CASE r.how = "return" -> "none"
         [] LooksLike429(r.how) -> "E429"
         [] OTHER -> "EOther")
  /\ CASE r.how = "return" ->
            /\ pc' = [pc EXCEPT ![t] = "o_finally"]
            /\ after' = [after EXCEPT ![t] = "return"]
            /\ UNCHANGED <<oSleeps, nap>>
       [] LooksLike429(r.how) ->
            /\ Outer429(t, j)
            /\ after' = after
       [] OTHER ->
            /\ OuterNon429(t)
            /\ after' = after

\* app.py:85, the permit is there; the helper is entered
OuterAcquire(t) ==
  /\ pc[t] = "o_acquire"
  /\ oSem > 0
  /\ oSem' = oSem - 1
  /\ pc' = [pc EXCEPT ![t] = "i_acquire"]
  /\ iAttempt' = [iAttempt EXCEPT ![t] = 0]
  /\ iSleeps' = Put(iSleeps, t, <<>>)
  /\ permits' = Rec(permits, t, LAMBDA n : n + 1)
  /\ UNCHANGED <<iSem, kind, oAttempt, after, lastExc, ret, lastOut, calls, hist,
                 oSleeps, nap, overdue>>
  /\ UNCHANGED outside
  /\ UNCHANGED libVars

\* app.py:85-88, no permit came within the 60 s
OuterAcquireTimeout(t) ==
  /\ pc[t] = "o_acquire"
  /\ oSem = 0
  /\ pc' = [pc EXCEPT ![t] = "raised"]
  /\ lastExc' = Put(lastExc, t, "ESemTimeout")
  /\ UNCHANGED <<oSem, iSem, kind, oAttempt, iAttempt, after, ret, lastOut, calls,
                 hist, oSleeps, iSleeps, nap, overdue>>
  /\ UNCHANGED <<permits, outside>>
  /\ UNCHANGED libVars

\* InnerAcquire gone wrong: the provider is called whether a permit is there
\* or not
InnerAcquireUngated(t) ==
  /\ pc[t] = "i_acquire"
  /\ iSem' = IF iSem > 0 THEN iSem - 1 ELSE iSem
  /\ pc' = [pc EXCEPT ![t] = "i_call"]
  /\ calls' = Rec(calls, t, LAMBDA n : n + 1)
  /\ overdue' = Put(overdue, t, FALSE)
  /\ permits' = Rec(permits, t, LAMBDA n : n + 1)
  /\ UNCHANGED <<oSem, kind, oAttempt, iAttempt, after, lastExc, ret, lastOut, hist,
                 oSleeps, iSleeps, nap>>
  /\ UNCHANGED outside
  /\ UNCHANGED libVars

\* openai_service.py:68-70, the permit is there and the provider call starts
InnerAcquire(t) ==
  /\ pc[t] = "i_acquire"
  /\ iSem > 0
  /\ iSem' = iSem - 1
  /\ pc' = [pc EXCEPT ![t] = "i_call"]
  /\ calls' = Rec(calls, t, LAMBDA n : n + 1)
  /\ overdue' = Put(overdue, t, FALSE)
  /\ permits' = Rec(permits, t, LAMBDA n : n + 1)
  /\ UNCHANGED <<oSem, kind, oAttempt, iAttempt, after, lastExc, ret, lastOut, hist,
                 oSleeps, iSleeps, nap>>
  /\ UNCHANGED outside
  /\ UNCHANGED libVars

\* openai_service.py:68: "with semaphore" has no timeout; 60 s go by and the
\* thread is still blocked
InnerWaitLong(t) ==
  /\ pc[t] = "i_acquire"
  /\ iSem = 0
  /\ t \in DOMAIN overdue
  /\ ~overdue[t]
  /\ overdue' = Put(overdue, t, TRUE)
  /\ UNCHANGED <<oSem, iSem, pc, kind, oAttempt, iAttempt, after, lastExc, ret,
                 lastOut, calls, hist, oSleeps, iSleeps, nap>>
  /\ UNCHANGED <<permits, outside>>
  /\ UNCHANGED libVars

\* InnerBacksOff gone wrong: the wait is that of the attempt after
InnerBacksOffLate(t, j) ==
  /\ pc' = [pc EXCEPT ![t] = "i_sleep"]
  /\ iSleeps' = Rec(iSleeps, t, LAMBDA q : Append(q, InnerBackoff(iAttempt[t] + 1)))
  /\ nap' = Put(nap, t, InnerBackoff(iAttempt[t] + 1) + j)

\* openai_service.py:77-99: the provider raised RateLimitError or another
\* OpenAIError; the thread sleeps inside the with block. j is the jitter.
InnerBacksOff(t, j) ==
  /\ pc' = [pc EXCEPT ![t] = "i_sleep"]
  /\ iSleeps' = Rec(iSleeps, t, LAMBDA q : Append(q, InnerBackoff(iAttempt[t])))
  /\ nap' = Put(nap, t, InnerBackoff(iAttempt[t]) + j)

\* openai_service.py:100-102: anything else the provider raised leaves the
\* with block and create_chat_completion_with_retries at once
InnerRaises(t, o, j) ==
  /\ iSem' = iSem + 1
  /\ HelperEnds(t, HelperResult(kind[t], o, ""), j)
  /\ UNCHANGED iSleeps

\* the provider call of openai_service.py:70 raises o
ProviderFails(t, o, j) ==
  /\ pc[t] = "i_call"
  /\ o \in ProviderOutcomes \ {"ok", "blank"}
  /\ lastOut' = Put(lastOut, t, o)
  /\ hist' = Rec(hist, t, LAMBDA h : HistNext(h, o))
  /\ IF o \in Transient
     THEN /\ j \in InnerJitters
          /\ InnerBacksOff(t, j)
          /\ UNCHANGED <<iSem, after, lastExc, ret, oSleeps>>
     ELSE /\ j \in OuterJitters
          /\ InnerRaises(t, o, j)
  /\ UNCHANGED <<oSem, kind, oAttempt, iAttempt, calls, overdue>>
  /\ UNCHANGED <<permits, outside>>
  /\ UNCHANGED libVars

\* openai_service.py:70-76: the provider returned a response, with content c
\* in its first choice (o = "ok") or without choices or content ("blank");
\* the with block is left and the helper goes on with the response
ProviderResponds(t, o, c) ==
  /\ pc[t] = "i_call"
  /\ o \in {"ok", "blank"}
  /\ c \in Contents(kind[t])
  /\ lastOut' = Put(lastOut, t, o)
  /\ hist' = Rec(hist, t, LAMBDA h : HistNext(h, o))
  /\ iSem' = iSem + 1
  /\ HelperEnds(t, HelperResult(kind[t], o, IF o = "ok" THEN c ELSE ""), 0)
  /\ UNCHANGED <<oSem, kind, oAttempt, iAttempt, calls, iSleeps, overdue>>
  /\ UNCHANGED <<permits, outside>>
  /\ UNCHANGED libVars

\* openai_service.py:86-87, :98-99 and :104-105: the sleep ends, the with block
\* is left, and the loop goes round or runs out
InnerWake(t) ==
  /\ pc[t] = "i_sleep"
  /\ iSem' = iSem + 1
  /\ IF iAttempt[t] + 1 < MAX_RETRIES
     THEN /\ iAttempt' = [iAttempt EXCEPT ![t] = @ + 1]
          /\ pc' = [pc EXCEPT ![t] = "i_acquire"]
          /\ nap' = Put(nap, t, 0)
          /\ UNCHANGED <<after, lastExc, ret, oSleeps>>
     ELSE /\ iAttempt' = iAttempt
          /\ HelperEnds(t, HelperResult(kind[t], "exhausted", ""), 0)
  /\ UNCHANGED <<oSem, kind, oAttempt, lastOut, calls, hist, iSleeps, overdue>>
  /\ UNCHANGED <<permits, outside>>
  /\ UNCHANGED libVars

\* app.py:99-100: the sleep ends; continue runs the finally block
OuterWake(t) ==
  /\ pc[t] = "o_sleep"
  /\ pc' = [pc EXCEPT ![t] = "o_finally"]
  /\ after' = [after EXCEPT ![t] = "continue"]
  /\ nap' = Put(nap, t, 0)
  /\ UNCHANGED <<oSem, iSem, kind, oAttempt, iAttempt, lastExc, ret, lastOut, calls,
                 hist, oSleeps, iSleeps, overdue>>
  /\ UNCHANGED <<permits, outside>>
  /\ UNCHANGED libVars

\* app.py:103-104: release, then raise runs the finally block
OuterRelease(t) ==
  /\ pc[t] = "o_release"
  /\ oSem' = oSem + 1
  /\ pc' = [pc EXCEPT ![t] = "o_finally"]
  /\ after' = [after EXCEPT ![t] = "raise"]
  /\ UNCHANGED <<iSem, kind, oAttempt, iAttempt, lastExc, ret, lastOut, calls, hist,
                 oSleeps, iSleeps, nap, overdue>>
  /\ UNCHANGED <<permits, outside>>
  /\ UNCHANGED libVars

\* FinallyCheck gone wrong: the finally block releases nothing
FinallyCheckKeeps(t) ==
  /\ pc[t] = "o_finally"
  /\ AfterFinally(t)
  /\ UNCHANGED <<oSem, iSem, kind, iAttempt, after, lastExc, ret, lastOut, calls,
                 hist, oSleeps, iSleeps, nap, overdue>>
  /\ UNCHANGED <<permits, outside>>
  /\ UNCHANGED libVars

\* app.py:107
FinallyCheck(t) ==
  /\ pc[t] = "o_finally"
  /\ IF oSem < MAX_CONCURRENT
     THEN pc' = [pc EXCEPT ![t] = "o_finrel"] /\ oAttempt' = oAttempt
     ELSE AfterFinally(t)
  /\ UNCHANGED <<oSem, iSem, kind, iAttempt, after, lastExc, ret, lastOut, calls,
                 hist, oSleeps, iSleeps, nap, overdue>>
  /\ UNCHANGED <<permits, outside>>
  /\ UNCHANGED libVars

\* app.py:108-111
FinallyRelease(t) ==
  /\ pc[t] = "o_finrel"
  /\ oSem' = oSem + 1
  /\ AfterFinally(t)
  /\ UNCHANGED <<iSem, kind, iAttempt, after, lastExc, ret, lastOut, calls, hist,
                 oSleeps, iSleeps, nap, overdue>>
  /\ UNCHANGED <<permits, outside>>
  /\ UNCHANGED libVars

\* llm_call_with_retries is entered with helper k: app.py:82
FreshInvocation(t, k) ==
  /\ kind' = [kind EXCEPT ![t] = k]
  /\ oAttempt' = [oAttempt EXCEPT ![t] = 0]
  /\ iAttempt' = [iAttempt EXCEPT ![t] = 0]
  /\ after' = [after EXCEPT ![t] = "none"]
  /\ lastExc' = Put(lastExc, t, "none")
  /\ ret' = Put(ret, t, NoValue)
  /\ lastOut' = Put(lastOut, t, "none")
  /\ calls' = Put(calls, t, 0)
  /\ hist' = Put(hist, t, "none")
  /\ oSleeps' = Put(oSleeps, t, <<>>)
  /\ iSleeps' = Put(iSleeps, t, <<>>)
  /\ nap' = Put(nap, t, 0)
  /\ overdue' = Put(overdue, t, FALSE)

\* a call site of llm_call_with_retries is reached: app.py:216, :308, :328,
\* :391, :404, :427, :459
InvokeStart(t, k) ==
  /\ pc[t] = "idle"
  /\ pc' = [pc EXCEPT ![t] = "o_acquire"]
  /\ FreshInvocation(t, k)
  /\ UNCHANGED <<oSem, iSem, permits>>
  /\ UNCHANGED outside
  /\ UNCHANGED libVars

\* the caller has the result or the exception, and goes on
InvokeEnd(t) ==
  /\ pc[t] \in {"returned", "raised"}
  /\ pc' = [pc EXCEPT ![t] = "idle"]
  /\ FreshInvocation(t, "none")
  /\ UNCHANGED <<oSem, iSem, permits>>
  /\ UNCHANGED outside
  /\ UNCHANGED libVars

\* threads T, of which the threads O are observed, before any invocation
InitInvoker(T, O) ==
  /\ oSem = MAX_CONCURRENT
  /\ iSem = MAX_CONCURRENT
  /\ pc = [t \in T |-> "idle"]
  /\ kind = [t \in T |-> "none"]
  /\ oAttempt = [t \in T |-> 0]
  /\ iAttempt = [t \in T |-> 0]
  /\ after = [t \in T |-> "none"]
  /\ lastExc = [t \in O |-> "none"]
  /\ ret = [t \in O |-> NoValue]
  /\ lastOut = [t \in O |-> "none"]
  /\ calls = [t \in O |-> 0]
  /\ hist = [t \in O |-> "none"]
  /\ oSleeps = [t \in O |-> <<>>]
  /\ iSleeps = [t \in O |-> <<>>]
  /\ nap = [t \in O |-> 0]
  /\ overdue = [t \in O |-> FALSE]
  /\ permits = [t \in O |-> 0]

NoResp == [code |-> 0, err |-> ""]

\* no request is being served by the threads O; the database is untouched
InitRequests(O) ==
  /\ ep = [t \in O |-> "none"]
  /\ msg = [t \in O |-> ""]
  /\ st = [t \in O |-> "idle"]
  /\ isDb = [t \in O |-> FALSE]
  /\ sqlQuery = [t \in O |-> NoValue]
  /\ genSql = [t \in O |-> NoValue]
  /\ rows = [t \in O |-> NoValue]
  /\ answer = [t \in O |-> NoValue]
  /\ resp = [t \in O |-> NoResp]
  /\ ran = [t \in O |-> <<>>]
  /\ saved = [t \in O |-> <<>>]
  /\ invoked = [t \in O |-> <<>>]
  /\ committed = {}
  /\ bgO = 0
  /\ bgI = 0


(***************************************************************************)
(* The request handlers of app.py.                                         *)
(*                                                                         *)
(* st: "idle"      no request                                              *)
(*     "schema"    get_schema_text_from_db, app.py:194, :291, :384         *)
(*     "history"   get_conversation_history of /ask, app.py:297            *)
(*     "classify"  the classification invocation of /chat, app.py:391      *)
(*     "schema2"   get_schema_text_from_db of /chat, app.py:399            *)
(*     "route"     is_sql_prompt, app.py:198, :305, :401                   *)
(*     "gen"       the SQL-generation invocation, app.py:216, :308, :404   *)
(*     "exec"      run_sql, app.py:201, :222, :318, :410                   *)
(*     "history2"  get_conversation_history of /chat, app.py:420           *)
(*     "answer"    the answer invocation, app.py:328, :427                 *)
(*     "chatting"  the general-chat invocation, app.py:459                 *)
(*     "save"      save_conversation, app.py:343, :439, :461               *)
(*     "done"      the response is sent                                    *)
(***************************************************************************)
Endpoints == {"query", "ask", "chat"}

\* the inbound texts the handlers are tried on
Messages ==
  {"",
   "SELECT * FROM employees;",
   "DROP TABLE employees;",
   "How many employees are in Sales?",
   "thanks;",
   "  select 1",
   "WITH t AS (SELECT 1) SELECT * FROM t",
   "SELECT 1; DROP TABLE employees;",
   "What is the capital of France?",
   "selection of staff",
   "   ",
   "-- staff\nSELECT 1",
   "SELECT 1 /* alter */",
   "CREATE TRIGGER trg AFTER INSERT ON employees BEGIN DELETE FROM employees; END;"}

\* app.py:46
SQL_KEYWORDS ==
  {"SELECT", "WITH", "INSERT", "UPDATE", "DELETE", "PRAGMA", "CREATE", "DROP", "ALTER"}

\* is_sql_prompt gone wrong: every text that is not the empty string counts
\* as SQL
is_sql_promptNonEmpty(prompt) == prompt # ""

\* app.py:48-60
is_sql_prompt(prompt) ==
  IF prompt = "" THEN FALSE
  ELSE LET trimmed == Strip(prompt)
           upper == Upper(trimmed)
       IN \/ \E kw \in SQL_KEYWORDS : StartsWith(upper, kw \o " ") \/ upper = kw
          \/ EndsWith(trimmed, ";")

\* db.py:20: run_sql fetches rows only for a text that starts with "select"
StartsWithSelect(query) == StartsWith(Lower(Strip(query)), "select")

\* the rest of s from its first ";" on, or "" when it has none
RECURSIVE FromSemicolon(_)
FromSemicolon(s) ==
  IF Len(s) = 0 THEN s
  ELSE IF Char(s, 1) = ";" THEN s ELSE FromSemicolon(SubSeq(s, 2, Len(s)))

\* the rest of s from the ";" that ends its first "; END" on, or "" when it
\* has none: the end of the body of a CREATE TRIGGER statement
RECURSIVE FromTriggerEnd(_)
FromTriggerEnd(s) ==
  IF Len(s) < 5 THEN ""
  ELSE IF StartsWith(s, "; END") THEN FromSemicolon(SubSeq(s, 6, Len(s)))
       ELSE FromTriggerEnd(SubSeq(s, 2, Len(s)))

\* sqlite3's cursor.execute (db.py:18) takes one statement: it raises for a
\* text with something after the first statement, and for a text that starts
\* with no SQL statement keyword.  The statements of a trigger's body belong
\* to the one CREATE TRIGGER statement.
SqliteTakes(query) ==
  LET q == Upper(Strip(query))
      rest == IF StartsWith(q, "CREATE TRIGGER ") THEN FromTriggerEnd(q)
              ELSE FromSemicolon(q)
  IN /\ \E kw \in SQL_KEYWORDS : StartsWith(q, kw \o " ")
     /\ (rest = "" \/ Strip(SubSeq(rest, 2, Len(rest))) = "")

\* the numbers of rows a SELECT is tried with
RowCounts == {0, 3}

\* len(rows) of the rows a SELECT returns, as str() writes it
RowLens == {ToString(n) : n \in RowCounts}

\* what run_sql(query) can do (db.py:6-27): raise, or return None or rows
RunSqlReturns(query) ==
  IF ~SqliteTakes(query) THEN {}
  ELSE IF StartsWithSelect(query) THEN RowLens ELSE {"None"}

\* app.py:336
FallbackAnswer(n) ==
  "Query executed successfully and returned " \o n \o " results."

\* the handler of thread c answers with status code and error text e
Respond(c, code, e) ==
  /\ resp' = Put(resp, c, [code |-> code, err |-> e])
  /\ st' = Put(st, c, "done")

\* the handler of thread c calls llm_call_with_retries(helper k, ...)
Invoke(c, k) ==
  /\ pc' = [pc EXCEPT ![c] = "o_acquire"]
  /\ FreshInvocation(c, k)
  /\ invoked' = Rec(invoked, c, LAMBDA q : Append(q, k))

\* llm_call_with_retries has returned or raised, and the handler has taken
\* what it needs
Leave(c) ==
  /\ pc' = [pc EXCEPT ![c] = "idle"]
  /\ FreshInvocation(c, "none")

NoInvocation == UNCHANGED <<pc, kind, oAttempt, iAttempt, after, lastExc, ret,
                            lastOut, calls, hist, oSleeps, iSleeps, nap, overdue>>

\* the answer to a request without its text: app.py:192, :286, :379
MissingText(e) ==
  CASE e = "query" -> "Missing 'prompt' field"
    [] e = "ask" -> "Missing 'question' field"
    [] OTHER -> "Message or prompt cannot be empty"

\* a request arrives: app.py:183-192, :278-286, :371-379
RequestArrives(c, e, m) ==
  /\ st[c] \in {"idle", "done"}
  /\ pc[c] = "idle"
  /\ ep' = Put(ep, c, e)
  /\ msg' = Put(msg, c, m)
  /\ isDb' = Put(isDb, c, FALSE)
  /\ sqlQuery' = Put(sqlQuery, c, NoValue)
  /\ genSql' = Put(genSql, c, NoValue)
  /\ rows' = Put(rows, c, NoValue)
  /\ answer' = Put(answer, c, NoValue)
  /\ ran' = Put(ran, c, <<>>)
  /\ saved' = Put(saved, c, <<>>)
  /\ invoked' = Put(invoked, c, <<>>)
  /\ permits' = Put(permits, c, 0)
  /\ IF m = ""
     THEN resp' = Put(resp, c, [code |-> 400, err |-> MissingText(e)])
          /\ st' = Put(st, c, "done")
     ELSE resp' = Put(resp, c, NoResp) /\ st' = Put(st, c, "schema")
  /\ committed' = {}
  /\ NoInvocation
  /\ UNCHANGED <<oSem, iSem, bgO, bgI>>
  /\ UNCHANGED libVars

\* the answer when get_schema_text_from_db raises: app.py:194 and :38-40,
\* :293-295, :385-387
SchemaFailedText(e) ==
  IF e = "query" THEN "Internal server error" ELSE "Failed to retrieve database schema"

\* GetSchema gone wrong: a schema that cannot be read is the client's fault
GetSchemaBadRequest(c, ok) ==
  /\ st[c] = "schema"
  /\ IF ~ok
     THEN /\ Respond(c, 400, SchemaFailedText(ep[c]))
          /\ NoInvocation /\ UNCHANGED invoked
     ELSE CASE ep[c] = "query" ->
                 /\ st' = Put(st, c, "route")
                 /\ NoInvocation /\ UNCHANGED <<resp, invoked>>
            [] ep[c] = "ask" ->
                 /\ st' = Put(st, c, "history")
                 /\ NoInvocation /\ UNCHANGED <<resp, invoked>>
            [] OTHER ->
                 /\ st' = Put(st, c, "classify")
                 /\ Invoke(c, "classify")
                 /\ UNCHANGED resp
  /\ UNCHANGED <<oSem, iSem, ep, msg, isDb, sqlQuery, genSql, rows, answer, ran,
                 saved, permits, envVars>>
  /\ UNCHANGED libVars

\* get_schema_text_from_db returns (ok) or raises: app.py:194, :290-295, :383-387
GetSchema(c, ok) ==
  /\ st[c] = "schema"
  /\ IF ~ok
     THEN /\ Respond(c, 500, SchemaFailedText(ep[c]))
          /\ NoInvocation /\ UNCHANGED invoked
     ELSE CASE ep[c] = "query" ->
                 /\ st' = Put(st, c, "route")
                 /\ NoInvocation /\ UNCHANGED <<resp, invoked>>
            [] ep[c] = "ask" ->
                 /\ st' = Put(st, c, "history")
                 /\ NoInvocation /\ UNCHANGED <<resp, invoked>>
            [] OTHER ->
                 /\ st' = Put(st, c, "classify")
                 /\ Invoke(c, "classify")
                 /\ UNCHANGED resp
  /\ UNCHANGED <<oSem, iSem, ep, msg, isDb, sqlQuery, genSql, rows, answer, ran,
                 saved, permits, envVars>>
  /\ UNCHANGED libVars

\* get_conversation_history of /ask returns or raises: app.py:297, :38-40
AskHistory(c, ok) ==
  /\ st[c] = "history"
  /\ IF ok THEN st' = Put(st, c, "route") /\ UNCHANGED resp
     ELSE Respond(c, 500, "Internal server error")
  /\ NoInvocation
  /\ UNCHANGED <<oSem, iSem, ep, msg, isDb, sqlQuery, genSql, rows, answer, ran,
                 saved, invoked, permits, envVars>>
  /\ UNCHANGED libVars

\* ClassifyDone gone wrong: whatever the classifier said, the request goes on
\* as a database question
ClassifyDoneAlwaysDb(c) ==
  /\ st[c] = "classify"
  /\ pc[c] \in {"returned", "raised"}
  /\ isDb' = Put(isDb, c, pc[c] = "raised" \/ ret[c] = "True")
  /\ st' = Put(st, c, "schema2")
  /\ Leave(c)
  /\ UNCHANGED invoked
  /\ UNCHANGED <<oSem, iSem, ep, msg, sqlQuery, genSql, rows, answer, resp, ran,
                 saved, permits, envVars>>
  /\ UNCHANGED libVars

\* the classification invocation of /chat is over: app.py:390-397, :457-459
ClassifyDone(c) ==
  /\ st[c] = "classify"
  /\ pc[c] \in {"returned", "raised"}
  /\ LET db == pc[c] = "raised" \/ ret[c] = "True"
     IN /\ isDb' = Put(isDb, c, db)
        /\ IF db
           THEN /\ st' = Put(st, c, "schema2")
                /\ Leave(c)
                /\ UNCHANGED invoked
           ELSE /\ st' = Put(st, c, "chatting")
                /\ Invoke(c, "chat")
  /\ UNCHANGED <<oSem, iSem, ep, msg, sqlQuery, genSql, rows, answer, resp, ran,
                 saved, permits, envVars>>
  /\ UNCHANGED libVars

\* GetSchema2 gone wrong: the answer is asked for at once, next to what
\* comes before it
GetSchema2Answers(c, ok) ==
  /\ st[c] = "schema2"
  /\ IF ok THEN st' = Put(st, c, "answer") /\ Invoke(c, "answer") /\ UNCHANGED resp
     ELSE Respond(c, 500, "Failed to process database question")
          /\ NoInvocation /\ UNCHANGED invoked
  /\ UNCHANGED <<oSem, iSem, ep, msg, isDb, sqlQuery, genSql, rows, answer, ran,
                 saved, permits, envVars>>
  /\ UNCHANGED libVars

\* get_schema_text_from_db of chat's database branch: app.py:399, :453-455
GetSchema2(c, ok) ==
  /\ st[c] = "schema2"
  /\ IF ok THEN st' = Put(st, c, "route") /\ UNCHANGED resp
     ELSE Respond(c, 500, "Failed to process database question")
  /\ NoInvocation
  /\ UNCHANGED <<oSem, iSem, ep, msg, isDb, sqlQuery, genSql, rows, answer, ran,
                 saved, invoked, permits, envVars>>
  /\ UNCHANGED libVars

\* Route gone wrong: every text is run as it came
RouteDirect(c) ==
  /\ st[c] = "route"
  /\ sqlQuery' = Put(sqlQuery, c, msg[c])
  /\ st' = Put(st, c, "exec")
  /\ NoInvocation
  /\ UNCHANGED <<oSem, iSem, ep, msg, isDb, genSql, rows, answer, resp, ran, saved,
                 invoked, permits, envVars>>
  /\ UNCHANGED libVars

\* app.py:198, :305-308, :401-404
Route(c) ==
  /\ st[c] = "route"
  /\ IF is_sql_prompt(msg[c])
     THEN /\ sqlQuery' = Put(sqlQuery, c, msg[c])
          /\ st' = Put(st, c, "exec")
          /\ NoInvocation /\ UNCHANGED invoked
     ELSE /\ st' = Put(st, c, "gen")
          /\ Invoke(c, "sql")
          /\ UNCHANGED sqlQuery
  /\ UNCHANGED <<oSem, iSem, ep, msg, isDb, genSql, rows, answer, resp, ran, saved,
                 permits, envVars>>
  /\ UNCHANGED libVars

\* the answer to a failed SQL generation: app.py:231-236, :313-315, :453-455
GenFailed(e) ==
  CASE e = "query" -> [code |-> 400, err |-> "SQL generation/execution failed"]
    [] e = "ask" -> [code |-> 500, err |-> "SQL generation failed"]
    [] OTHER -> [code |-> 500, err |-> "Failed to process database question"]

\* the SQL-generation invocation is over: app.py:216-221, :308-315, :404-407
GenDone(c) ==
  /\ st[c] = "gen"
  /\ pc[c] \in {"returned", "raised"}
  /\ CASE pc[c] = "raised" ->
            /\ Respond(c, GenFailed(ep[c]).code, GenFailed(ep[c]).err)
            /\ UNCHANGED <<sqlQuery, genSql>>
       [] pc[c] = "returned" /\ ret[c] = "" ->
            /\ Respond(c, 400, "Failed to generate SQL query")
            /\ genSql' = Put(genSql, c, ret[c])
            /\ sqlQuery' = Put(sqlQuery, c, ret[c])
       [] OTHER ->
            /\ st' = Put(st, c, "exec")
            /\ genSql' = Put(genSql, c, ret[c])
            /\ sqlQuery' = Put(sqlQuery, c, ret[c])
            /\ UNCHANGED resp
  /\ Leave(c)
  /\ UNCHANGED <<oSem, iSem, ep, msg, isDb, rows, answer, ran, saved, invoked,
                 permits, envVars>>
  /\ UNCHANGED libVars

\* the answer to a failed run_sql of sql, for a request with text m:
\* app.py:209-211, :231-236, :320-326, :411-417
ExecFailed(e, m) ==
  CASE e = "query" /\ ~is_sql_prompt(m) ->
         [code |-> 400, err |-> "SQL generation/execution failed"]
    [] e = "ask" -> [code |-> 500, err |-> "SQL execution failed"]
    [] OTHER -> [code |-> 400, err |-> "SQL execution failed"]

\* run_sql(sql_query) raises: db.py:18, app.py:209-211, :231-236, :320-326, :411-417
ExecRaises(c) ==
  /\ st[c] = "exec"
  /\ ran' = Rec(ran, c, LAMBDA q : Append(q, sqlQuery[c]))
  /\ Respond(c, ExecFailed(ep[c], msg[c]).code, ExecFailed(ep[c], msg[c]).err)
  /\ NoInvocation
  /\ UNCHANGED <<oSem, iSem, ep, msg, isDb, sqlQuery, genSql, rows, answer, saved,
                 invoked, permits, envVars>>
  /\ UNCHANGED libVars

\* run_sql(sql_query) returns out, having committed what is no SELECT
\* (db.py:18-27); the handler takes len() of it where it does:
\* app.py:201-208, :222-229, :318-319, :410
ExecReturns(c, out) ==
  /\ st[c] = "exec"
  /\ out \in RunSqlReturns(sqlQuery[c])
  /\ ran' = Rec(ran, c, LAMBDA q : Append(q, sqlQuery[c]))
  /\ rows' = Put(rows, c, out)
  /\ committed' = IF StartsWithSelect(sqlQuery[c]) THEN committed
                  ELSE committed \cup {sqlQuery[c]}
  /\ CASE ep[c] = "query" ->
            /\ IF out = "None"
               THEN Respond(c, ExecFailed(ep[c], msg[c]).code, ExecFailed(ep[c], msg[c]).err)
               ELSE Respond(c, 200, "")
            /\ NoInvocation /\ UNCHANGED invoked
       [] ep[c] = "ask" ->
            IF out = "None"
            THEN Respond(c, ExecFailed(ep[c], msg[c]).code, ExecFailed(ep[c], msg[c]).err)
                 /\ NoInvocation /\ UNCHANGED invoked
            ELSE st' = Put(st, c, "answer") /\ Invoke(c, "answer") /\ UNCHANGED resp
       [] OTHER ->
            /\ st' = Put(st, c, "history2")
            /\ NoInvocation /\ UNCHANGED <<resp, invoked>>
  /\ UNCHANGED <<oSem, iSem, ep, msg, isDb, sqlQuery, genSql, answer, saved, permits,
                 bgO, bgI>>
  /\ UNCHANGED libVars

\* get_conversation_history of chat's database branch: app.py:420, :453-455
ChatHistory(c, ok) ==
  /\ st[c] = "history2"
  /\ IF ok
     THEN st' = Put(st, c, "answer") /\ Invoke(c, "answer") /\ UNCHANGED resp
     ELSE Respond(c, 500, "Failed to process database question")
          /\ NoInvocation /\ UNCHANGED invoked
  /\ UNCHANGED <<oSem, iSem, ep, msg, isDb, sqlQuery, genSql, rows, answer, ran,
                 saved, permits, envVars>>
  /\ UNCHANGED libVars

\* the answer invocation is over: app.py:327-340, :426-436
AnswerDone(c) ==
  /\ st[c] = "answer"
  /\ pc[c] \in {"returned", "raised"}
  /\ CASE pc[c] = "raised" /\ rows[c] = "None" ->
            \* len(db_results) raises inside the except clause
            /\ Respond(c, 500, IF ep[c] = "ask" THEN "Internal server error"
                               ELSE "Failed to process database question")
            /\ UNCHANGED answer
       [] pc[c] = "raised" /\ rows[c] # "None" ->
            /\ answer' = Put(answer, c, FallbackAnswer(rows[c])
                                    \o " (Answer generation failed)")
            /\ st' = Put(st, c, "save")
            /\ UNCHANGED resp
       [] pc[c] = "returned" /\ ret[c] = "" /\ ep[c] = "ask" ->
            /\ answer' = Put(answer, c, FallbackAnswer(rows[c]))
            /\ st' = Put(st, c, "save")
            /\ UNCHANGED resp
       [] OTHER ->
            /\ answer' = Put(answer, c, ret[c])
            /\ st' = Put(st, c, "save")
            /\ UNCHANGED resp
  /\ Leave(c)
  /\ UNCHANGED <<oSem, iSem, ep, msg, isDb, sqlQuery, genSql, rows, ran, saved,
                 invoked, permits, envVars>>
  /\ UNCHANGED libVars

\* the general-chat invocation is over: app.py:458-472
ChatDone(c) ==
  /\ st[c] = "chatting"
  /\ pc[c] \in {"returned", "raised"}
  /\ IF pc[c] = "raised"
     THEN Respond(c, 500, "Failed to process question") /\ UNCHANGED answer
     ELSE /\ answer' = Put(answer, c, ret[c])
          /\ st' = Put(st, c, "save")
          /\ UNCHANGED resp
  /\ Leave(c)
  /\ UNCHANGED <<oSem, iSem, ep, msg, isDb, sqlQuery, genSql, rows, ran, saved,
                 invoked, permits, envVars>>
  /\ UNCHANGED libVars

\* Save gone wrong: a write that raises fails the request
SaveOrFail(c, ok) ==
  /\ st[c] = "save"
  /\ saved' = Rec(saved, c, LAMBDA q : Append(q,
       [question |-> msg[c],
        sql |-> IF isDb[c] \/ ep[c] = "ask" THEN sqlQuery[c] ELSE "",
        answer |-> answer[c],
        stored |-> ok]))
  /\ IF ok THEN Respond(c, 200, "") ELSE Respond(c, 500, "Internal server error")
  /\ NoInvocation
  /\ UNCHANGED <<oSem, iSem, ep, msg, isDb, sqlQuery, genSql, rows, answer, ran,
                 invoked, permits, envVars>>
  /\ UNCHANGED libVars

\* save_conversation is called and returns (ok) or raises; the response
\* follows: app.py:342-359, :438-451, :460-468
Save(c, ok) ==
  /\ st[c] = "save"
  /\ saved' = Rec(saved, c, LAMBDA q : Append(q,
       [question |-> msg[c],
        sql |-> IF isDb[c] \/ ep[c] = "ask" THEN sqlQuery[c] ELSE "",
        answer |-> answer[c],
        stored |-> ok]))
  /\ Respond(c, 200, "")
  /\ NoInvocation
  /\ UNCHANGED <<oSem, iSem, ep, msg, isDb, sqlQuery, genSql, rows, answer, ran,
                 invoked, permits, envVars>>
  /\ UNCHANGED libVars

(***************************************************************************)
(* The rest of the traffic: the invocations of other requests take and     *)
(* return permits of the two semaphores (app.py:85 and :109,               *)
(* openai_service.py:68), the inner one inside the outer one.              *)
(***************************************************************************)
\* the number of other requests that can be inside an invocation
OtherRequests == 2

BgTakesOuter ==
  /\ oSem > 0
  /\ bgO < OtherRequests
  /\ oSem' = oSem - 1
  /\ bgO' = bgO + 1
  /\ UNCHANGED <<iSem, pc, kind, oAttempt, iAttempt, after, lastExc, ret, lastOut,
                 calls, hist, oSleeps, iSleeps, nap, overdue, reqVars, permits,
                 committed, bgI>>
  /\ UNCHANGED libVars

BgReturnsOuter ==
  /\ bgO > bgI
  /\ oSem' = oSem + 1
  /\ bgO' = bgO - 1
  /\ UNCHANGED <<iSem, pc, kind, oAttempt, iAttempt, after, lastExc, ret, lastOut,
                 calls, hist, oSleeps, iSleeps, nap, overdue, reqVars, permits,
                 committed, bgI>>
  /\ UNCHANGED libVars

BgTakesInner ==
  /\ iSem > 0
  /\ bgI < bgO
  /\ iSem' = iSem - 1
  /\ bgI' = bgI + 1
  /\ UNCHANGED <<oSem, pc, kind, oAttempt, iAttempt, after, lastExc, ret, lastOut,
                 calls, hist, oSleeps, iSleeps, nap, overdue, reqVars, permits,
                 committed, bgO>>
  /\ UNCHANGED libVars

BgReturnsInner ==
  /\ bgI > 0
  /\ iSem' = iSem + 1
  /\ bgI' = bgI - 1
  /\ UNCHANGED <<oSem, pc, kind, oAttempt, iAttempt, after, lastExc, ret, lastOut,
                 calls, hist, oSleeps, iSleeps, nap, overdue, reqVars, permits,
                 committed, bgO>>
  /\ UNCHANGED libVars

(***************************************************************************)
(* compaire.py: the keyword classifier and its one-entry schema cache.     *)
(***************************************************************************)
\* the character at i, or "" when the text is shorter
At(s, i) == IF i \in 1 .. Len(s) THEN SubSeq(s, i, i) ELSE ""

\* p in s
Contains(s, p) ==
  \E i \in 1 .. (Len(s) - Len(p) + 1) : SubSeq(s, i, i + Len(p) - 1) = p

Digits == {"0", "1", "2", "3", "4", "5", "6", "7", "8", "9"}

\* [a-zA-Z0-9_]
IdentChar(ch) == ch # "" /\ LowerOf(ch) \in AlphaNum \cup {"_"}

\* [a-zA-Z_]
IdentStart(ch) == IdentChar(ch) /\ ch \notin Digits

\* the length of the [a-zA-Z0-9_]* run s starts with
RECURSIVE IdentRun(_)
IdentRun(s) ==
  IF IdentChar(At(s, 1)) THEN 1 + IdentRun(SubSeq(s, 2, Len(s))) ELSE 0

\* set(re.findall(r"[a-zA-Z_][a-zA-Z0-9_]*", s)): compaire.py:23, :80
RECURSIVE WordTokens(_)
WordTokens(s) ==
  IF Len(s) = 0 THEN {}
  ELSE IF IdentStart(At(s, 1))
       THEN LET n == IdentRun(s)
            IN {SubSeq(s, 1, n)} \cup WordTokens(SubSeq(s, n + 1, Len(s)))
       ELSE WordTokens(SubSeq(s, 2, Len(s)))

\* the position of the first sep in s, 0 when there is none
FirstAt(s, sep) ==
  IF Contains(s, sep)
  THEN CHOOSE i \in 1 .. Len(s) :
         /\ SubSeq(s, i, i + Len(sep) - 1) = sep
         /\ \A j \in 1 .. (i - 1) : SubSeq(s, j, j + Len(sep) - 1) # sep
  ELSE 0

\* s.split(sep)
RECURSIVE Split(_, _)
Split(s, sep) ==
  LET i == FirstAt(s, sep)
  IN IF i = 0 THEN <<s>>
     ELSE <<SubSeq(s, 1, i - 1)>> \o Split(SubSeq(s, i + Len(sep), Len(s)), sep)

\* [c.strip() for c in s.split(",") if c.strip()], as a set: compaire.py:18
Columns(s) ==
  LET parts == Split(s, ",")
  IN {Strip(parts[i]) : i \in DOMAIN parts} \ {""}

\* What the matches of Table:\s*([^\n\r]+)\nColumns:\s*([^\n\r]+) add
\* (compaire.py:16-20), for a text already in lower case and of the shape
\* get_schema_text_from_db builds (utils.py:66-69): a line with "table:" and
\* a name, followed by a line that starts with "columns:" and has names.
TableTokens(text) ==
  LET lines == Split(text, "\n")
      NameOf(l) == LStrip(SubSeq(l, FirstAt(l, "table:") + 6, Len(l)))
      ColsOf(l) == LStrip(SubSeq(l, 9, Len(l)))
      Hit(k) == /\ Contains(lines[k], "table:")
                /\ NameOf(lines[k]) # ""
                /\ StartsWith(lines[k + 1], "columns:")
                /\ ColsOf(lines[k + 1]) # ""
  IN UNION {IF Hit(k) THEN {Strip(NameOf(lines[k]))} \cup Columns(ColsOf(lines[k + 1]))
            ELSE {} : k \in 1 .. (Len(lines) - 1)}

\* compaire.py:4-25
parse_schema_tokens(schema_text) ==
  IF schema_text = "" THEN {}
  ELSE TableTokens(Lower(schema_text)) \cup WordTokens(Lower(schema_text))

\* compaire.py:44-48
strong_phrases ==
  {"select ", "select*", "select *", "from ", "where ", "group by", "order by",
   " join ", " count", " sum", " avg", " distinct ", "limit ", "top ",
   "sql query", "sql", "query the", "run sql", "execute sql"}

\* compaire.py:53-58
nl_signals ==
  {"how many", "how much", "total", "calculate total", "calculate", "sum of",
   "employees", "salary", "salaries", "department", "departments", "rows",
   "records", "percentage", "%", "per", "by", "filter", "aggregate", "show me",
   "list all", "list the", "give me a list", "display"}

\* compaire.py:85-88
fallback ==
  {"rows where", "records where", "employees who", "employees earning",
   "how many employees", "count employees", "find employees", "find records"}

\* re.search(r"\$\s?\d{1,3}(?:[,\d]{0,})", s): a dollar sign, at most one
\* white space and a digit (compaire.py:64)
DollarAmount(s) ==
  \E i \in 1 .. Len(s) :
    /\ At(s, i) = "$"
    /\ \/ At(s, i + 1) \in Digits
       \/ At(s, i + 1) \in Whitespace /\ At(s, i + 2) \in Digits

\* re.search(r"\d{1,3}(?:[,]\d{3})+\b", s): a digit, groups of a comma and
\* three digits, and the end of the word.  A further group starts with a
\* comma, which ends the word too, so one group decides (compaire.py:65)
GroupedNumber(s) ==
  \E i \in 1 .. Len(s) :
    /\ At(s, i) \in Digits
    /\ At(s, i + 1) = ","
    /\ \A k \in 2 .. 4 : At(s, i + k) \in Digits
    /\ ~IdentChar(At(s, i + 5))

\* re.search(r"\b<word>\s+\$?\d+", s) (compaire.py:66-70)
WordThenNumber(s, word) ==
  \E i \in 1 .. (Len(s) - Len(word) + 1) :
    /\ SubSeq(s, i, i + Len(word) - 1) = word
    /\ ~IdentChar(At(s, i - 1))
    /\ LET rest == SubSeq(s, i + Len(word), Len(s))
           num == LStrip(rest)
       IN /\ At(rest, 1) \in Whitespace
          /\ \/ At(num, 1) \in Digits
             \/ At(num, 1) = "$" /\ At(num, 2) \in Digits

\* compaire.py:63-74
money_and_numbers(s) ==
  \/ DollarAmount(s)
  \/ GroupedNumber(s)
  \/ \E w \in {"under", "below", "over", "greater than", "less than"} :
       WordThenNumber(s, w)

\* msg of is_db_question: compaire.py:39
Normalised(message) == Strip(Lower(message))

\* a signal in the message alone makes it a database question:
\* compaire.py:43-74
HasSignal(m) ==
  \/ \E p \in strong_phrases : Contains(m, p)
  \/ \E p \in nl_signals : Contains(m, p)
  \/ money_and_numbers(m)

\* is_db_question returns before it looks at the schema: compaire.py:40-74
ReturnsEarly(message) == Normalised(message) = "" \/ HasSignal(Normalised(message))

\* AfterSchema gone wrong: the tokens of the schema are not looked at
AfterSchemaNoTokens(message, schema_tokens) ==
  \E p \in fallback : Contains(Normalised(message), p)

\* is_db_question from the schema check on, given the tokens
\* get_cached_schema_tokens returned (compaire.py:78-92)
AfterSchema(message, schema_tokens) ==
  LET m == Normalised(message)
  IN \/ schema_tokens # {} /\ WordTokens(m) \cap schema_tokens # {}
     \/ \E p \in fallback : Contains(m, p)

\* maxsize of the lru_cache of get_cached_schema_tokens
CACHE_SIZE == 1

\* a cache that answers with whatever it has
CacheHitAny(c, schema_text) == c # << >>

\* a cache that never has anything
CacheHitNever(c, schema_text) == FALSE

\* the cache has the tokens of schema_text
CacheHit(c, schema_text) == \E i \in DOMAIN c : c[i].key = schema_text

\* what get_cached_schema_tokens returns: compaire.py:28-31
CachedTokens(c, schema_text) ==
  IF CacheHit(c, schema_text)
  THEN c[CHOOSE i \in DOMAIN c : TRUE].value
  ELSE parse_schema_tokens(schema_text)

\* the cache after the call: the least recently used entry goes when the
\* cache is full
CacheAfter(c, schema_text) ==
  IF CacheHit(c, schema_text) THEN c
  ELSE LET more == Append(c, [key |-> schema_text,
                              value |-> parse_schema_tokens(schema_text)])
       IN IF Len(more) > CACHE_SIZE THEN Tail(more) ELSE more

\* the entry of a get_cached_schema_tokens call in tokLog
TokCall(schema_text, direct) ==
  [schema |-> schema_text,
   tokens |-> CachedTokens(cache, schema_text),
   parsed |-> ~CacheHit(cache, schema_text),
   direct |-> direct]

SchemaTexts ==
  {"",
   "Table: employees\nColumns: id, name, salary",
   "Table: orders\nColumns: id, amount\n\nTable: Staff\nColumns: first name, dept"}

ChatMessages ==
  {"", "what is the name", "hello there", "Under $5000", "  Staff  ",
   "What's the capital of France?", "run SQL", "find records"}

MaxCalls == 3

\* the calls made so far
CallsMade == Len(isDbLog) + Cardinality({i \in DOMAIN tokLog : tokLog[i].direct})

\* get_cached_schema_tokens(schema_text), called from outside compaire.py
GetCachedSchemaTokens(schema_text) ==
  /\ CallsMade < MaxCalls
  /\ tokLog' = Append(tokLog, TokCall(schema_text, TRUE))
  /\ cache' = CacheAfter(cache, schema_text)
  /\ UNCHANGED <<isDbLog, dbVars, previewVars, appVars>>

\* is_db_question(message, schema_text): compaire.py:34-92
IsDbQuestion(message, schema_text) ==
  /\ CallsMade < MaxCalls
  /\ IF ~ReturnsEarly(message)
     THEN /\ tokLog' = Append(tokLog, TokCall(schema_text, FALSE))
          /\ cache' = CacheAfter(cache, schema_text)
          /\ isDbLog' = Append(isDbLog,
               [message |-> message, schema |-> schema_text, looked |-> TRUE,
                result |-> AfterSchema(message, CachedTokens(cache, schema_text))])
     ELSE /\ isDbLog' = Append(isDbLog,
               [message |-> message, schema |-> schema_text, looked |-> FALSE,
                result |-> Normalised(message) # ""])
          /\ UNCHANGED <<cache, tokLog>>
  /\ UNCHANGED <<dbVars, previewVars, appVars>>

InitCacheVars == cache = << >> /\ isDbLog = << >> /\ tokLog = << >>

(***************************************************************************)
(* db.py: the conversations table.  A row is the turn's user, its id (the  *)
(* AUTOINCREMENT key, which stands for its question and answer too) and    *)
(* its timestamp.                                                          *)
(***************************************************************************)

MaxTurns == 3

MaxClock == 2

\* sequence s backwards: rows[::-1]
Reversed(s) == [i \in 1 .. Len(s) |-> s[Len(s) + 1 - i]]

\* the first n of s: LIMIT n
FirstN(s, n) == SubSeq(s, 1, Min(n, Len(s)))

\* the ids of the rows WHERE user_id = user; a deleted row stays in turns,
\* as its id is never given again (AUTOINCREMENT, db.py:35), and is not live
RowsOf(user) == {i \in DOMAIN turns : turns[i].user = user /\ turns[i].live}

\* The orders ORDER BY timestamp DESC can give the rows of ids: every order
\* with no timestamp before a smaller one; among equal timestamps SQL
\* promises nothing.
TimestampDesc(ids) ==
  {o \in [1 .. Cardinality(ids) -> ids] :
     /\ \A i, j \in DOMAIN o : i # j => o[i] # o[j]
     /\ \A i, j \in DOMAIN o : i < j => turns[o[i]].ts >= turns[o[j]].ts}

\* a second goes by
Tick ==
  /\ clock < MaxClock
  /\ clock' = clock + 1
  /\ UNCHANGED <<turns, lastHist, cacheVars, previewVars, appVars>>

\* save_conversation(user, ...): db.py:45-50; the row gets the next id and
\* CURRENT_TIMESTAMP (db.py:35, :40)
SaveConversation(user) ==
  /\ Len(turns) < MaxTurns
  /\ turns' = Append(turns, [user |-> user, id |-> Len(turns) + 1, ts |-> clock,
                             live |-> TRUE])
  /\ UNCHANGED <<clock, lastHist, cacheVars, previewVars, appVars>>

\* get_conversation_history(user, limit), the database giving the rows in
\* any of the orders it may: db.py:53-60
GetConversationHistory(user, limit) ==
  /\ \E o \in TimestampDesc(RowsOf(user)) :
       lastHist' = [asked |-> TRUE, user |-> user, limit |-> limit,
                    saved |-> Len(turns), rows |-> Reversed(FirstN(o, limit))]
  /\ UNCHANGED <<turns, clock, cacheVars, previewVars, appVars>>

\* clear_chat_history gone wrong: the DELETE has no WHERE
ClearChatHistoryAll(user) ==
  /\ turns' = [i \in DOMAIN turns |-> [turns[i] EXCEPT !.live = FALSE]]
  /\ UNCHANGED <<clock, lastHist, cacheVars, previewVars, appVars>>

\* clear_chat_history(user): db.py:95-100
ClearChatHistory(user) ==
  /\ turns' = [i \in DOMAIN turns |->
                IF turns[i].user = user THEN [turns[i] EXCEPT !.live = FALSE]
                ELSE turns[i]]
  /\ UNCHANGED <<clock, lastHist, cacheVars, previewVars, appVars>>

\* what get_conversation_history(user, limit) can return: db.py:53-60
HistoryOf(user, limit) ==
  {Reversed(FirstN(o, limit)) : o \in TimestampDesc(RowsOf(user))}

InitDbVars ==
  /\ turns = << >>
  /\ clock = 0
  /\ lastHist = [asked |-> FALSE, user |-> "u1", limit |-> 5, saved |-> 0,
                 rows |-> << >>]

(***************************************************************************)
(* app.py:240-265: /table_preview.                                         *)
(*                                                                         *)
(* pv.st: "idle"      no request                                           *)
(*        "discover"  get_all_tables_and_columns, app.py:254               *)
(*        "exec"      run_sql(preview_sql), app.py:261                     *)
(*        "done"      the response is sent                                 *)
(***************************************************************************)
\* the tables a database can have, sqlite's own aside
UserTables == {"employees", "details", "conversations"}

\* the values of "table" the endpoint is tried on
TableArgs ==
  {"", "employees", "details", "EMPLOYEES", "sqlite_sequence", "staff",
   "employees; DROP TABLE employees"}

\* app.py:259
PreviewSql(table) == "SELECT * FROM " \o table \o " LIMIT 20"

NoPreview ==
  [st |-> "idle", table |-> "", discovered |-> FALSE, found |-> {}, code |-> 0,
   err |-> "", ran |-> << >>]

\* a table is created or dropped, by whatever else uses the database
TableChanges(t) ==
  /\ dbTables' = IF t \in dbTables THEN dbTables \ {t} ELSE dbTables \cup {t}
  /\ UNCHANGED <<pv, cacheVars, dbVars, appVars>>

\* a request arrives: app.py:248-251
PreviewArrives(table) ==
  /\ pv.st \in {"idle", "done"}
  /\ pv' = IF table = ""
           THEN [NoPreview EXCEPT !.st = "done", !.code = 400,
                                  !.err = "Missing 'table' field"]
           ELSE [NoPreview EXCEPT !.st = "discover", !.table = table]
  /\ UNCHANGED <<dbTables, cacheVars, dbVars, appVars>>

\* Discover gone wrong: the name is not looked up
DiscoverTrusting(ok) ==
  /\ pv.st = "discover"
  /\ pv' = IF ~ok
           THEN [pv EXCEPT !.st = "done", !.code = 500, !.err = "Internal server error"]
           ELSE [pv EXCEPT !.st = "exec", !.discovered = TRUE, !.found = dbTables]
  /\ UNCHANGED <<dbTables, cacheVars, dbVars, appVars>>

\* get_all_tables_and_columns returns the tables of the database (ok) or
\* raises (utils.py:24-25, :43-46; app.py:38-40), and the name is looked up:
\* app.py:254-256
Discover(ok) ==
  /\ pv.st = "discover"
  /\ pv' = IF ~ok
           THEN [pv EXCEPT !.st = "done", !.code = 500, !.err = "Internal server error"]
           ELSE IF pv.table \notin dbTables
           THEN [pv EXCEPT !.st = "done", !.discovered = TRUE, !.found = dbTables,
                           !.code = 400, !.err = "Unknown table"]
           ELSE [pv EXCEPT !.st = "exec", !.discovered = TRUE, !.found = dbTables]
  /\ UNCHANGED <<dbTables, cacheVars, dbVars, appVars>>

\* run_sql(preview_sql) returns the rows of the table, or raises when the
\* text is not one statement or the table is not there: app.py:259-265
PreviewRuns ==
  /\ pv.st = "exec"
  /\ pv' = IF RunSqlReturns(PreviewSql(pv.table)) # {} /\ pv.table \in dbTables
           THEN [pv EXCEPT !.st = "done", !.code = 200,
                           !.ran = Append(@, PreviewSql(pv.table))]
           ELSE [pv EXCEPT !.st = "done", !.code = 400, !.err = "Preview query failed",
                           !.ran = Append(@, PreviewSql(pv.table))]
  /\ UNCHANGED <<dbTables, cacheVars, dbVars, appVars>>

\* the database as create_db.py and init_db leave it; no preview request
InitPreviewVars == dbTables = {"employees", "conversations"} /\ pv = NoPreview

(***************************************************************************)
(* Spec: NumCallers threads call the invoker again and again, each time    *)
(* with any of the helpers, among other traffic.                           *)
(***************************************************************************)

Init == InitInvoker(1 .. NumCallers, {}) /\ InitRequests({}) /\ InitCacheVars /\ InitDbVars /\ InitPreviewVars

Next ==
  \/ \E t \in Threads, k \in Kinds : InvokeStart(t, k)
  \/ \E t \in Threads : OuterAcquire(t)
  \/ \E t \in Threads : OuterAcquireTimeout(t)
  \/ \E t \in Threads : InnerAcquire(t)
  \/ \E t \in Threads, o \in ProviderOutcomes, j \in InnerJitters \cup OuterJitters :
       ProviderFails(t, o, j)
  \/ \E t \in Threads, o \in ProviderOutcomes :
       \E c \in Contents(kind[t]) : ProviderResponds(t, o, c)
  \/ \E t \in Threads : InnerWake(t)
  \/ \E t \in Threads : OuterWake(t)
  \/ \E t \in Threads : OuterRelease(t)
  \/ \E t \in Threads : FinallyCheck(t)
  \/ \E t \in Threads : FinallyRelease(t)
  \/ \E t \in Threads : InvokeEnd(t)
  \/ BgTakesOuter
  \/ BgReturnsOuter
  \/ BgTakesInner
  \/ BgReturnsInner

Spec == Init /\ [][Next]_vars

(***************************************************************************)
(* SpecLive: Spec with the scheduling the code relies on.  A thread that   *)
(* can take a step of llm_call_with_retries or of the helper takes it:     *)
(* acquire(timeout=60) returns with or without the permit (app.py:85), a   *)
(* provider call returns or raises (openai_service.py:70), a sleep ends.   *)
(* The "with semaphore" of openai_service.py:68 blocks without a timeout,  *)
(* so a thread gets through it only if it is served when permits keep      *)
(* coming back: strong fairness.  The other requests give back the permits *)
(* they hold.                                                              *)
(***************************************************************************)
ThreadStep(t) ==
  \/ OuterAcquire(t) \/ OuterAcquireTimeout(t)
  \/ \E o \in ProviderOutcomes, j \in InnerJitters \cup OuterJitters :
       ProviderFails(t, o, j)
  \/ \E o \in ProviderOutcomes : \E c \in Contents(kind[t]) : ProviderResponds(t, o, c)
  \/ InnerWake(t) \/ OuterWake(t) \/ OuterRelease(t)
  \/ FinallyCheck(t) \/ FinallyRelease(t)

Fairness ==
  /\ \A t \in 1 .. NumCallers : WF_vars(ThreadStep(t)) /\ SF_vars(InnerAcquire(t))
  /\ WF_vars(BgReturnsOuter)
  /\ WF_vars(BgReturnsInner)

\* the steps of Spec, with the invocations those of call_openai_for_sql, the
\* helper that raises, and of call_openai_for_answer, one of the three that
\* return whatever happens
NextLive ==
  \/ \E t \in Threads, k \in {"sql", "answer"} : InvokeStart(t, k)
  \/ \E t \in Threads : InnerAcquire(t)
  \/ \E t \in Threads : ThreadStep(t)
  \/ \E t \in Threads : InvokeEnd(t)
  \/ BgTakesOuter
  \/ BgReturnsOuter
  \/ BgTakesInner
  \/ BgReturnsInner

SpecLive == Init /\ [][NextLive]_vars /\ Fairness

(***************************************************************************)
(* SpecOrch: one thread serves request after request, on any endpoint and  *)
(* with any of the messages, among other traffic.                          *)
(***************************************************************************)

InitOrch ==
  InitInvoker({1}, {1}) /\ InitRequests({1}) /\ InitCacheVars /\ InitDbVars /\ InitPreviewVars

NextOrch ==
  \/ \E c \in Observed, e \in Endpoints, m \in Messages : RequestArrives(c, e, m)
  \/ \E c \in Observed, ok \in BOOLEAN : GetSchema(c, ok)
  \/ \E c \in Observed, ok \in BOOLEAN : AskHistory(c, ok)
  \/ \E c \in Observed : ClassifyDone(c)
  \/ \E c \in Observed, ok \in BOOLEAN : GetSchema2(c, ok)
  \/ \E c \in Observed : Route(c)
  \/ \E c \in Observed : GenDone(c)
  \/ \E c \in Observed : ExecRaises(c)
  \/ \E c \in Observed, out \in RowLens \cup {"None"} : ExecReturns(c, out)
  \/ \E c \in Observed, ok \in BOOLEAN : ChatHistory(c, ok)
  \/ \E c \in Observed : AnswerDone(c)
  \/ \E c \in Observed : ChatDone(c)
  \/ \E c \in Observed, ok \in BOOLEAN : Save(c, ok)
  \/ \E t \in Threads : OuterAcquire(t)
  \/ \E t \in Threads : OuterAcquireTimeout(t)
  \/ \E t \in Threads : InnerAcquire(t)
  \/ \E t \in Threads : InnerWaitLong(t)
  \/ \E t \in Threads, o \in ProviderOutcomes, j \in InnerJitters \cup OuterJitters :
       ProviderFails(t, o, j)
  \/ \E t \in Threads, o \in ProviderOutcomes :
       \E c \in Contents(kind[t]) : ProviderResponds(t, o, c)
  \/ \E t \in Threads : InnerWake(t)
  \/ \E t \in Threads : OuterWake(t)
  \/ \E t \in Threads : OuterRelease(t)
  \/ \E t \in Threads : FinallyCheck(t)
  \/ \E t \in Threads : FinallyRelease(t)
  \/ BgTakesOuter
  \/ BgReturnsOuter
  \/ BgTakesInner
  \/ BgReturnsInner

SpecOrch == InitOrch /\ [][NextOrch]_vars

(***************************************************************************)
(* The library modules are exercised with no request under way.            *)
(***************************************************************************)
InitLib ==
  /\ InitInvoker({}, {}) /\ InitRequests({})
  /\ InitCacheVars /\ InitDbVars /\ InitPreviewVars

(***************************************************************************)
(* SpecCache: compaire.py on its own, any calls in any order.              *)
(***************************************************************************)
NextCache ==
  \/ \E s \in SchemaTexts : GetCachedSchemaTokens(s)
  \/ \E m \in ChatMessages, s \in SchemaTexts : IsDbQuestion(m, s)

SpecCache == InitLib /\ [][NextCache]_vars

(***************************************************************************)
(* SpecHistory: the conversations table on its own.                        *)
(***************************************************************************)
NextHistory ==
  \/ Tick
  \/ \E u \in {"u1", "u2"} : SaveConversation(u)
  \/ \E u \in {"u1", "u2"}, n \in {1, 2, 5} : GetConversationHistory(u, n)

SpecHistory == InitLib /\ [][NextHistory]_vars

(***************************************************************************)
(* SpecMemory: the conversations table with clear_chat_history as well.    *)
(***************************************************************************)
NextMemory ==
  \/ Tick
  \/ \E u \in {"u1", "u2"} : SaveConversation(u)
  \/ \E u \in {"u1", "u2"}, n \in {1, 2, 5} : GetConversationHistory(u, n)
  \/ \E u \in {"u1", "u2"} : ClearChatHistory(u)

SpecMemory == InitLib /\ [][NextMemory]_vars

(***************************************************************************)
(* SpecPreview: /table_preview on its own, on a database that changes.     *)
(***************************************************************************)
NextPreview ==
  \/ \E t \in UserTables : TableChanges(t)
  \/ \E t \in TableArgs : PreviewArrives(t)
  \/ \E ok \in BOOLEAN : Discover(ok)
  \/ PreviewRuns

SpecPreview == InitLib /\ [][NextPreview]_vars

(***************************************************************************)
(* Who holds what.                                                         *)
(***************************************************************************)
\* the helper called at app.py:90 is running in thread t
InHelper(t) == pc[t] \in {"i_acquire", "i_call", "i_sleep"}

\* thread t has a permit of _llm_semaphore: from app.py:85 to the release of
\* app.py:103 or :109
HoldsOuter(t) ==
  \/ InHelper(t)
  \/ pc[t] \in {"o_sleep", "o_release"}
  \/ pc[t] \in {"o_finally", "o_finrel"} /\ after[t] # "raise"

\* thread t is inside the with block of openai_service.py:68
HoldsInner(t) == pc[t] \in {"i_call", "i_sleep"}

\* the allowed top-level statements of the safety gate the specification
\* describes; app.py has no such gate
ALLOWED_STATEMENTS == {"SELECT", "WITH"}

\* the text is one statement of an allowed kind
GateAccepts(sql) ==
  LET q == Upper(Strip(sql))
      rest == FromSemicolon(q)
  IN /\ \E kw \in ALLOWED_STATEMENTS : StartsWith(q, kw \o " ")
     /\ (rest = "" \/ Strip(SubSeq(rest, 2, Len(rest))) = "")

(***************************************************************************)
(* The claims.                                                             *)
(***************************************************************************)

C2_GeneratedSqlIsGated ==
  \A c \in Observed : \A i \in DOMAIN ran[c] :
    ran[c][i] = genSql[c] => GateAccepts(ran[c][i])

\* C3: an inbound explicit-SQL text whose top-level statement is neither
\* SELECT nor WITH is never passed to run_sql.  (Fails: /query and /ask run
\* whatever is_sql_prompt takes for SQL.)
C3_ForbiddenSqlNeverRuns ==
  \A c \in Observed : \A i \in DOMAIN ran[c] :
    (is_sql_prompt(msg[c]) /\ ran[c][i] = msg[c]) => GateAccepts(msg[c])

\* C4: no caller is at once in a backoff sleep and holding a permit.
\* (Fails: both loops sleep before they release.)
C4_NoSleepWithPermit ==
  \A t \in Threads : pc[t] \in {"o_sleep", "i_sleep"} => ~(HoldsOuter(t) \/ HoldsInner(t))

\* C5: no caller waits for a permit beyond the 60 s timeout: it has the
\* permit or an error by then.  (Fails: the with block of
\* openai_service.py:68 waits without an end.)
C5_NoWaitBeyondTimeout == \A t \in Observed : ~overdue[t]

C7_AlwaysTransientRaises ==
  \A t \in Observed :
    (hist[t] = "T" /\ pc[t] \in {"returned", "raised"}) =>
      (pc[t] = "raised" /\ calls[t] = MAX_RETRIES)

C9_ExplicitSqlSkipsModel ==
  \A c \in Observed :
    (st[c] = "exec" /\ is_sql_prompt(msg[c])) => permits[c] = 0

\* C10: when is_sql_prompt does not take the inbound text for SQL, run_sql
\* never gets the text itself: what it gets for the request is what the
\* SQL-generation call returned.
C10_NonExplicitIsGenerated ==
  \A c \in Observed :
    ~is_sql_prompt(msg[c]) =>
      /\ st[c] = "exec" => sqlQuery[c] = genSql[c]
      /\ \A i \in DOMAIN ran[c] :
           /\ ran[c][i] = genSql[c]
           /\ genSql[c] \in {SqlHelper("ok", x).val : x \in SqlContents}
           /\ \E n \in DOMAIN invoked[c] : invoked[c][n] = "sql"

\* C10, its case: a question went through generation and run_sql has been
\* called for it
C10_Witness ==
  \E c \in Observed :
    /\ msg[c] = "How many employees are in Sales?"
    /\ ran[c] = <<"SELECT * FROM employees">>
    /\ genSql[c] = "SELECT * FROM employees"

\* C11: when the classification call of /chat fails, the message is taken
\* for a database question.  (Fails: call_openai_for_classification returns
\* False for whatever went wrong inside it.)
C11_FailedClassificationIsDb ==
  \A c \in Observed :
    (st[c] = "classify" /\ pc[c] = "returned" /\ lastOut[c] \in {"rate", "oaierr", "exc429", "exc", "blank"}) => ret[c] = "True"

\* C12: after an execution that returned N rows, the answer that is saved
\* and sent is the model's answer or, when answer synthesis failed, exactly
\* "Query executed successfully and returned N results.".  (Fails: the
\* helper's error text, or the text with "(Answer generation failed" added,
\* becomes the answer.)
C12_FailedAnswerIsFallback ==
  \A c \in Observed :
    (st[c] = "save" /\ (ep[c] = "ask" \/ isDb[c]) /\ rows[c] \in RowLens) =>
      answer[c] \in ({ValidateResponse(x) : x \in AnswerContents} \ {""}) \cup {FallbackAnswer(rows[c])}

\* C13: when run_sql raises in /ask or /chat, the failed request has saved
\* one turn with the question, the SQL and the failure text.  (Fails: the
\* handlers return without a save.)
C13_FailedExecutionIsSaved ==
  \A c \in Observed :
    (st[c] = "done" /\ ep[c] \in {"ask", "chat"} /\ resp[c].err = "SQL execution failed") =>
      /\ Len(saved[c]) = 1
      /\ saved[c][1].question = msg[c]
      /\ saved[c][1].sql = sqlQuery[c]

\* C14: a save_conversation that raises changes nothing in the response:
\* the request answers 200, with the answer that was handed to the write.
C14_SaveFailureIsSwallowed ==
  \A c \in Observed :
    (st[c] = "done" /\ saved[c] # <<>>) =>
      /\ resp[c] = [code |-> 200, err |-> ""]
      /\ Len(saved[c]) = 1
      /\ saved[c][1].answer = answer[c]
      /\ saved[c][1].question = msg[c]

\* C14, its case: the write of a database answer raised and the request is
\* answered
C14_Witness ==
  \E c \in Observed :
    /\ st[c] = "done" /\ Len(saved[c]) = 1 /\ ~saved[c][1].stored
    /\ resp[c].code = 200 /\ ran[c] # <<>> /\ answer[c] = "There are 3 employees."

\* C15: every /ask or /chat request with a text attempts one
\* save_conversation, whatever its path.  (Fails: the paths that end in an
\* error return before the save.)
C15_OneSavePerRequest ==
  \A c \in Observed :
    (st[c] = "done" /\ ep[c] \in {"ask", "chat"} /\ msg[c] # "") => Len(saved[c]) = 1

\* the number of ";" in s
RECURSIVE Semicolons(_)
Semicolons(s) ==
  IF Len(s) = 0 THEN 0
  ELSE (IF Char(s, 1) = ";" THEN 1 ELSE 0) + Semicolons(SubSeq(s, 2, Len(s)))

\* C16: a SQL text with more than one statement-ending semicolon is never
\* executed successfully.  (Fails: nothing counts semicolons, and sqlite3
\* takes a CREATE TRIGGER with its body as one statement.)
C16_StackedNeverExecutes ==
  \A c \in Observed : \A i \in DOMAIN ran[c] :
    Semicolons(ran[c][i]) > 1 => (rows[c] = NoValue /\ ran[c][i] \notin committed)

\* the operations the safety gate of the specification forbids anywhere in
\* a text; app.py has no such gate
FORBIDDEN_OPERATIONS == {"ALTER", "ATTACH", "DETACH", "VACUUM", "REINDEX"}

\* w is in s as a whole word
HasWord(s, w) ==
  \E i \in 1 .. Len(s) :
    /\ i + Len(w) - 1 <= Len(s)
    /\ SubSeq(s, i, i + Len(w) - 1) = w
    /\ (i = 1 \/ LowerOf(Char(s, i - 1)) \notin AlphaNum \cup {"_"})
    /\ (i + Len(w) > Len(s) \/ LowerOf(Char(s, i + Len(w))) \notin AlphaNum \cup {"_"})

\* the text has a forbidden operation in it, in any case
HasForbidden(sql) == \E w \in FORBIDDEN_OPERATIONS : HasWord(Upper(sql), w)

\* C17: a SQL text with a forbidden operation in it as a whole word, in any
\* case, is never passed to run_sql, even when it starts with SELECT.
\* (Fails: the handlers look at nothing but is_sql_prompt.)
C17_ForbiddenNeverRuns ==
  \A c \in Observed : \A i \in DOMAIN ran[c] : ~HasForbidden(ran[c][i])

\* what is_db_question gives when nothing has been cached: compaire.py:34-92
\* with the tokens parsed afresh
UncachedAnswer(message, schema_text) ==
  IF ReturnsEarly(message) THEN Normalised(message) # ""
  ELSE AfterSchema(message, parse_schema_tokens(schema_text))

\* C18: whatever calls came before, with other schema texts too,
\* is_db_question gives a message and a schema text one answer: the answer
\* it gives on a fresh cache, and so the same answer every time.
C18_AnswerIgnoresEarlierCalls ==
  /\ \A i \in DOMAIN isDbLog :
       isDbLog[i].result = UncachedAnswer(isDbLog[i].message, isDbLog[i].schema)
  /\ \A i, j \in DOMAIN isDbLog :
       (isDbLog[i].message = isDbLog[j].message /\ isDbLog[i].schema = isDbLog[j].schema)
         => isDbLog[i].result = isDbLog[j].result

\* the same question about the same schema was asked twice and answered yes
\* from the schema's tokens, with a question about another schema, which
\* replaced the cache entry, in between
C18_Witness ==
  \E i, k, j \in DOMAIN isDbLog :
    /\ i < k /\ k < j
    /\ isDbLog[i].message = isDbLog[j].message
    /\ isDbLog[i].schema = isDbLog[j].schema
    /\ isDbLog[i].looked /\ isDbLog[j].looked /\ isDbLog[j].result
    /\ isDbLog[k].looked /\ isDbLog[k].schema \notin {isDbLog[i].schema, ""}

\* C19: of two consecutive calls of get_cached_schema_tokens with the same
\* schema text the second returns the token set of the first, and does not
\* run parse_schema_tokens.
C19_SecondCallIsCached ==
  \A i \in DOMAIN tokLog :
    (i > 1 /\ tokLog[i - 1].schema = tokLog[i].schema)
      => tokLog[i].tokens = tokLog[i - 1].tokens /\ ~tokLog[i].parsed

\* two consecutive calls with the same schema text, the first of which
\* parsed it and found tokens
C19_Witness ==
  \E i \in DOMAIN tokLog :
    /\ i > 1
    /\ tokLog[i - 1].schema = tokLog[i].schema
    /\ tokLog[i - 1].parsed
    /\ tokLog[i].tokens # {}

\* the ids of the last n of the first k rows that are user's, oldest first
MostRecent(user, n, k) ==
  LET mine == SelectSeq([i \in 1 .. k |-> i], LAMBDA i : turns[i].user = user)
  IN SubSeq(mine, Len(mine) - Min(n, Len(mine)) + 1, Len(mine))

\* C20: get_conversation_history(user, limit = N) returns the N turns of the
\* user saved last (all of them when there are fewer), oldest first, also
\* when turns have the same timestamp.
\* (Fails: turns saved within one second come in any order, and LIMIT cuts
\* among them.)
C20_HistoryIsLastN ==
  lastHist.asked =>
    lastHist.rows = MostRecent(lastHist.user, lastHist.limit, lastHist.saved)

\* C21, as the code has it: when get_schema_text_from_db raises in /ask or
\* /chat the request ends with a 5xx response, no SQL has been executed and
\* no turn written; no model call has been made when it is the request's
\* first reading of the schema, and only the classification call when it is
\* the second reading of /chat.
C21_SchemaFailureIsTerminal ==
  [][\A c \in Observed :
       (ep[c] \in {"ask", "chat"} /\ st[c] \in {"schema", "schema2"}
          /\ st'[c] = "done") =>
         /\ resp'[c].code >= 500
         /\ ran'[c] = << >> /\ saved'[c] = << >>
         /\ pc'[c] = "idle"
         /\ invoked'[c] = IF st[c] = "schema" THEN << >> ELSE <<"classify">>]_vars

\* a /chat request has ended on the schema it could not read at first
C21_Witness ==
  \E c \in Observed :
    /\ ep[c] = "chat" /\ st[c] = "done"
    /\ resp[c] = [code |-> 500, err |-> "Failed to retrieve database schema"]
    /\ invoked[c] = << >>

\* C21, as stated: when get_schema_text_from_db raises in /ask or /chat the
\* request ends with a 5xx response and has made no model call, executed no
\* SQL and written no turn.  (Fails: /chat reads the schema again at
\* app.py:399, after the classification call.)
C21_SchemaFailureNoModelCall ==
  [][\A c \in Observed :
       (ep[c] \in {"ask", "chat"} /\ st[c] \in {"schema", "schema2"}
          /\ st'[c] = "done") =>
         /\ resp'[c].code >= 500
         /\ invoked'[c] = << >> /\ ran'[c] = << >> /\ saved'[c] = << >>]_vars

\* C22: a provider response without choices or without content is a terminal
\* error of the invocation: no further provider call is made for it, and the
\* invocation raises to its caller.  (Fails: the answer, chat and
\* classification helpers catch the validation error and return a value.)
C22_BlankResponseRaises ==
  \A t \in Observed :
    lastOut[t] = "blank" =>
      /\ pc[t] \in {"o_release", "o_finally", "o_finrel", "returned", "raised"}
      /\ pc[t] # "o_release" => after[t] = "raise"
      /\ pc[t] # "returned"

ProviderErrorText(o) ==
  CASE o = "rate" -> "Rate limit reached for requests"
    [] o = "oaierr" -> "Connection error."
    [] o = "exc429" -> "HTTP 429 Too Many Requests"
    [] OTHER -> "unexpected keyword argument"

\* the text of what a helper's try block ends with, when it is an exception:
\* openai_service.py:105, :126, :149 and :102
InnerErrorText(end) ==
  CASE end = "exhausted" -> "OpenAI request failed after retries"
    [] end = "blank" -> "No message content in OpenAI response"
    [] OTHER -> ProviderErrorText(end)

\* the text of what the invocation of thread t has raised (app.py:88, :104,
\* :114); only call_openai_for_sql raises
RaisedText(t) ==
  CASE lastExc[t] = "ESemTimeout" -> "Could not acquire LLM semaphore (timeout)"
    [] lastOut[t] \in Transient -> "Failed to generate SQL query: " \o InnerErrorText("exhausted")
    [] OTHER -> "Failed to generate SQL query: " \o InnerErrorText(lastOut[t])

\* C24: when the retries run out on transient errors, what the invocation
\* raises is the last of these errors, with the number of attempts in it.
\* (Fails: create_chat_completion_with_retries raises a new Exception that
\* names neither, and llm_call_with_retries raises last_exception as it is.)
C24_RaisesLastTransientError ==
  \A t \in Observed :
    (hist[t] \in {"T", "F"} /\ pc[t] = "raised" /\ calls[t] = MAX_RETRIES) =>
      /\ Contains(RaisedText(t), ProviderErrorText(lastOut[t]))
      /\ Contains(RaisedText(t), ToString(calls[t]))

\* C25: table_preview runs its SELECT only for a table name that is among
\* the table names it discovered; for any other name it answers 400 and
\* run_sql is not called.
C25_PreviewOnlyKnownTables ==
  /\ \A i \in DOMAIN pv.ran :
       /\ pv.ran[i] = PreviewSql(pv.table)
       /\ pv.discovered /\ pv.table \in pv.found
  /\ pv.st = "exec" => pv.discovered /\ pv.table \in pv.found
  /\ (pv.st = "done" /\ pv.discovered /\ pv.table \notin pv.found) =>
       pv.code = 400 /\ pv.ran = << >>

\* a name that carries a second statement was turned down, and nothing ran
C25_Witness ==
  /\ pv.st = "done" /\ pv.discovered
  /\ pv.table = "employees; DROP TABLE employees"
  /\ pv.code = 400 /\ pv.ran = << >>

\* C26: in every state the free permits of _llm_semaphore and the permits
\* held by the attempts under way add up to MAX_CONCURRENT, each permit
\* taken being released once, so there are never more than MAX_CONCURRENT
\* free permits.  (Fails: a non-429 failure releases at app.py:103 and the
\* finally block may release again.)
C26_PermitsAreConserved ==
  /\ oSem + Cardinality({t \in Threads : HoldsOuter(t)}) + bgO = MAX_CONCURRENT
  /\ oSem <= MAX_CONCURRENT

\* C27: the wait after failed attempt k (from 0) is min(base delay * 2^k,
\* MAX_BACKOFF) plus a jitter between 0 and the loop's jitter bound, so its
\* part without jitter is at most MAX_BACKOFF, in both retry loops.
\* (Fails: create_chat_completion_with_retries has no cap.)
C27_BackoffIsCapped ==
  \A t \in Observed :
    /\ \A i \in DOMAIN oSleeps[t] :
         oSleeps[t][i] = Min(BASE_DELAY * (2 ^ (i - 1)), MAX_BACKOFF)
    /\ \A i \in DOMAIN iSleeps[t] :
         iSleeps[t][i] = Min(BASE_DELAY_SECONDS * (2 ^ (i - 1)), MAX_BACKOFF)
    /\ pc[t] = "o_sleep" =>
         nap[t] - oSleeps[t][Len(oSleeps[t])] \in 0 .. JITTER
    /\ pc[t] = "i_sleep" =>
         nap[t] - iSleeps[t][Len(iSleeps[t])] \in 0 .. BASE_DELAY_SECONDS

\* thread c is in no invocation: its handler is between two stages, or has
\* no request
BetweenStages(c) == pc[c] \in {"idle", "returned", "raised"}

\* neither pool is short of a permit on account of thread c
PoolsWholeWithout(c) ==
  /\ oSem + bgO + Cardinality({t \in Threads \ {c} : HoldsOuter(t)}) >= MAX_CONCURRENT
  /\ iSem + bgI + Cardinality({t \in Threads \ {c} : HoldsInner(t)}) = MAX_CONCURRENT

C29_ChatStagesInSequence ==
  \A c \in Observed :
    ep[c] = "chat" =>
      /\ \E order \in {<<"classify", "sql", "answer">>, <<"classify", "answer">>,
                       <<"classify", "chat">>} : /\ Len(invoked[c]) <= Len(order)
                                /\ SubSeq(order, 1, Len(invoked[c])) = invoked[c]
      /\ ~BetweenStages(c) =>
           /\ invoked[c] # << >>
           /\ kind[c] = invoked[c][Len(invoked[c])]
           /\ st[c] = CASE kind[c] = "classify" -> "classify"
                        [] kind[c] = "sql" -> "gen"
                        [] kind[c] = "answer" -> "answer"
                        [] OTHER -> "chatting"
      /\ st[c] = "gen" => invoked[c] = <<"classify", "sql">> /\ isDb[c]
      /\ (st[c] = "exec" \/ ran[c] # << >>) =>
           /\ invoked[c] # << >> /\ isDb[c]
           /\ st[c] = "exec" => pc[c] = "idle" /\ ran[c] = << >>
           /\ ~is_sql_prompt(msg[c]) =>
                invoked[c][Len(invoked[c])] # "classify" /\ genSql[c] # NoValue
           /\ Len(ran[c]) <= 1
      /\ (\E i \in DOMAIN invoked[c] : invoked[c][i] = "answer") =>
           Len(ran[c]) = 1 /\ rows[c] # NoValue

\* a /chat request has gone through all four stages, and the provider call
\* of its answer synthesis is in flight
C29_Witness ==
  \E c \in Observed :
    /\ ep[c] = "chat" /\ st[c] = "answer" /\ pc[c] = "i_call"
    /\ invoked[c] = <<"classify", "sql", "answer">>
    /\ Len(ran[c]) = 1 /\ ran[c][1] = genSql[c]

C31_ExplicitOnlyWithKeyword ==
  \A c \in Observed :
    (st[c] = "exec" /\ genSql[c] = NoValue /\ sqlQuery[c] = msg[c]) =>
      LET RECURSIVE AfterLine(_), Body(_)
          AfterLine(s) == IF s = "" THEN s
                          ELSE IF Char(s, 1) = "\n" THEN SubSeq(s, 2, Len(s))
                          ELSE AfterLine(SubSeq(s, 2, Len(s)))
          Body(s) == LET t == LStrip(s)
                     IN IF StartsWith(t, "--") THEN Body(AfterLine(t)) ELSE t
          upper == Upper(Body(msg[c]))
      IN \E kw \in SQL_KEYWORDS :
           /\ StartsWith(upper, kw)
           /\ \/ Len(upper) = Len(kw)
              \/ LowerOf(Char(upper, Len(kw) + 1)) \notin AlphaNum \cup {"_"}

\* C32: for an empty or all-whitespace text is_sql_prompt returns False (and
\* raises nothing): a handler that asks it about such a text goes on to SQL
\* generation, never to execution of the text.
C32_BlankIsNotSql ==
  [][\A c \in Observed :
       (st[c] = "route" /\ st'[c] # "route" /\ Strip(msg[c]) = "") =>
         /\ st'[c] = "gen" /\ kind'[c] = "sql"
         /\ sqlQuery'[c] = NoValue /\ ran'[c] = << >>]_vars

\* a handler has asked is_sql_prompt about an all-whitespace text and has
\* gone on to generate SQL for it
C32_Witness ==
  \E c \in Observed :
    /\ msg[c] = "   " /\ st[c] = "gen" /\ kind[c] = "sql"
    /\ sqlQuery[c] = NoValue

\* C33: call_openai_for_classification returns True for a model output that
\* starts with "true" in any case, False for one that starts with "false"
\* and False for every other output, and raises for none of them nor for a
\* provider call that failed: a classification invocation only ever raises
\* the permit timeout of llm_call_with_retries, and never backs off.
C33_ClassificationNeverRaises ==
  /\ \A end \in (ProviderOutcomes \cup {"exhausted"}), x \in ClassifyContents :
       LET text == Lower(Strip(x))
           r == ClassifyHelper(end, x)
       IN /\ r.how = "return"
          /\ r.val = IF end = "ok" /\ Len(text) >= 4 /\ SubSeq(text, 1, 4) = "true"
                     THEN "True" ELSE "False"
  /\ \A c \in Observed :
       kind[c] = "classify" =>
         /\ pc[c] \notin {"o_sleep", "o_release"}
         /\ pc[c] \in {"o_finally", "o_finrel", "returned"} =>
              /\ ret[c] \in {"True", "False"}
              /\ lastExc[c] = "none"
              /\ ret[c] = "True" => lastOut[c] = "ok"
         /\ pc[c] = "raised" => lastExc[c] = "ESemTimeout" /\ calls[c] = 0

\* a classification invocation has returned False, after provider calls that
\* all failed
C33_Witness ==
  \E c \in Observed :
    /\ kind[c] = "classify" /\ pc[c] = "returned"
    /\ ret[c] = "False" /\ lastOut[c] \in Transient /\ calls[c] = MAX_RETRIES

\* C34: over any sequence of get_cached_schema_tokens and is_db_question
\* calls parse_schema_tokens runs at most once for each schema text, also
\* when the calls alternate between two schema texts.  (Fails: the
\* lru_cache of compaire.py:28 holds one entry, so a call with another
\* schema text evicts it and the first text is parsed again.)
C34_ParsedOncePerSchema ==
  \A s \in SchemaTexts :
    Cardinality({i \in DOMAIN tokLog : tokLog[i].schema = s /\ tokLog[i].parsed}) <= 1

\* C35: the tokens of a schema text are exactly its table names and column
\* names in lower case, with no other word of the text among them (not the
\* labels "table" and "columns").  (Fails: compaire.py:23-24 adds every
\* word of the text to the names.)
C35_TokensAreNamesOnly ==
  \A i \in DOMAIN tokLog :
    LET names == IF tokLog[i].schema = "" THEN {}
                 ELSE TableTokens(Lower(tokLog[i].schema))
    IN /\ tokLog[i].tokens = names
       /\ \A w \in {"table", "columns"} : w \in tokLog[i].tokens => w \in names

\* C36: is_db_question returns True exactly when one of its five layers
\* matches the message (a strong phrase, a natural-language signal, a number
\* or currency pattern, a word it shares with the tokens of the schema, a
\* fallback phrase) and False otherwise: False for the empty message and
\* for "What's the capital of France?" asked of the employees schema.
C36_TrueIffALayerMatches ==
  \A i \in DOMAIN isDbLog :
    LET m == Strip(Lower(isDbLog[i].message))
        tokens == parse_schema_tokens(isDbLog[i].schema)
        layers == \/ \E p \in strong_phrases : Contains(m, p)
                  \/ \E p \in nl_signals : Contains(m, p)
                  \/ money_and_numbers(m)
                  \/ WordTokens(m) \cap tokens # {}
                  \/ \E p \in fallback : Contains(m, p)
    IN /\ isDbLog[i].result = (m # "" /\ layers)
       /\ m = "" => ~isDbLog[i].result
       /\ (/\ isDbLog[i].message = "What's the capital of France?"
           /\ isDbLog[i].schema = "Table: employees\nColumns: id, name, salary")
            => ~isDbLog[i].result

\* the question about France was asked of the employees schema and answered
\* no, and a question that names a column of it was answered yes
C36_Witness ==
  \E i, j \in DOMAIN isDbLog :
    /\ isDbLog[i].message = "What's the capital of France?"
    /\ isDbLog[i].schema = "Table: employees\nColumns: id, name, salary"
    /\ isDbLog[i].looked /\ ~isDbLog[i].result
    /\ isDbLog[j].message = "what is the name"
    /\ isDbLog[j].schema = isDbLog[i].schema
    /\ isDbLog[j].result

\* C37: run_sql returns the rows of every read statement, of one that starts
\* with WITH as of one that starts with SELECT, and returns None, after the
\* commit, only for a write statement.  (Fails: db.py:20 fetches rows only
\* for a text that starts with "select".)
C37_ReadsReturnRows ==
  \A c \in Observed :
    (ran[c] # << >> /\ rows[c] # NoValue) =>
      LET q == Upper(Strip(ran[c][1]))
          read == StartsWith(q, "SELECT") \/ StartsWith(q, "WITH")
      IN /\ read => rows[c] \in RowLens /\ ran[c][1] \notin committed
         /\ ~read => rows[c] = "None" /\ ran[c][1] \in committed

\* C38: when /query, /ask or /chat answers that the execution of the SQL
\* failed, the statement has changed nothing in the database: nothing of it
\* is committed.  (Fails: run_sql commits a statement that is no SELECT and
\* returns None, db.py:22-24, and the handler then raises on len(None)
\* inside the same try block and reports the execution as failed.)
C38_FailedSqlCommitsNothing ==
  \A c \in Observed :
    (/\ st[c] = "done"
     /\ resp[c].err \in {"SQL execution failed", "SQL generation/execution failed"}
     /\ ran[c] # << >>)
      => \A i \in DOMAIN ran[c] : ran[c][i] \notin committed

C40_MemoryIsPerUser ==
  /\ [](lastHist.asked =>
          \A i \in DOMAIN lastHist.rows :
            /\ lastHist.rows[i] \in DOMAIN turns
            /\ turns[lastHist.rows[i]].user = lastHist.user)
  /\ [][\A u \in {"u1", "u2"}, v \in {"u1", "u2"}, n \in {1, 2, 5} :
          LET saves == /\ Len(turns') = Len(turns) + 1
                       /\ turns'[Len(turns')].user = u
              clears == /\ Len(turns') = Len(turns)
                        /\ \E i \in DOMAIN turns :
                             turns[i].user = u /\ turns[i].live /\ ~turns'[i].live
          IN (u # v /\ (saves \/ clears)) => HistoryOf(v, n)' = HistoryOf(v, n)]_vars

\* the history of one user was read and is not empty, with a turn of the
\* other user saved and one deleted
C40_Witness ==
  /\ lastHist.asked /\ lastHist.rows # << >>
  /\ \E i, j \in DOMAIN turns :
       /\ turns[i].user # lastHist.user /\ ~turns[i].live
       /\ turns[j].user # lastHist.user /\ turns[j].live
  /\ lastHist.rows \in HistoryOf(lastHist.user, lastHist.limit)

====
